---- MODULE Spec2Model ----
(***************************************************************************)
(* A model of the Spike terminal text editor (src/Spike.c).                *)
(*                                                                         *)
(* Bytes are integers.  A row is a record [chars, render, hl] of byte      *)
(* sequences; erow.size is Len(chars) and erow.rsize is Len(render).       *)
(* C arrays are 0-indexed, sequences 1-indexed: C's a[i] is a[i + 1] here. *)
(* A pointer that may be NULL is a sequence of length at most one:         *)
(* <<>> is NULL and <<v>> points to v.                                     *)
(* The NUL byte is left out of every input alphabet, so a C string is the  *)
(* whole byte sequence.                                                    *)
(***************************************************************************)
EXTENDS Integers, Sequences, FiniteSets, TLC

VARIABLES
    E,           \* struct editorConfig E (without orig_termios and statusmsg_time)
    quit_times,  \* static of editorProcessKeypress
    cb,          \* statics of editorFindCallback: last_match, direction, saved_hl_line, saved_hl
    prompt,      \* frame of the running editorPrompt/editorFind: buf and the saved cursor
    pc,          \* where the process is: "start", "init", "open", "main", "find", "saveas", "exited"
    term,        \* terminal attributes, atexit registration and outcome of the restore
    disk,        \* the file named E.filename: <<>> when absent, <<bytes>> otherwise
    keyrun,      \* history: how many Ctrl-Q keys editorReadKey returned in a row
    probe        \* the argument/result record of the pure-function specifications

vars == <<E, quit_times, cb, prompt, pc, term, disk, keyrun, probe>>

----------------------------------------------------------------------------
(* Defines, src/Spike.c:24-51, and the character literals the code uses.   *)

SPIKE_TAB_STOP == 8
SPIKE_QUIT_TIMES == 3

BACKSPACE == 127
ARROW_LEFT == 1000
ARROW_RIGHT == 1001
ARROW_UP == 1002
ARROW_DOWN == 1003
DEL_KEY == 1004
HOME_KEY == 1005
END_KEY == 1006
PAGE_UP == 1007
PAGE_DOWN == 1008

HL_NORMAL == 0
HL_NUMBER == 1
HL_MATCH == 2

CH_TAB == 9       \* '\t'
CH_LF == 10       \* '\n'
CH_CR == 13       \* '\r'
CH_ESC == 27      \* '\x1b'
CH_SPACE == 32    \* ' '
CH_ZERO == 48     \* '0'
CH_NINE == 57     \* '9'
CH_ONE == 49      \* '1', a digit to type
CH_NUL == 0       \* '\0', what an extending ftruncate fills with
CH_LBRACKET == 91 \* '['
CH_O == 79        \* 'O'
CH_TILDE == 126   \* '~'
CH_A == 65        \* 'A'
CH_B == 66        \* 'B'
CH_C == 67        \* 'C'
CH_D == 68        \* 'D'
CH_H == 72        \* 'H'
CH_F == 70        \* 'F'
CH_THREE == 51    \* '3'
CH_FOUR == 52     \* '4'
CH_FIVE == 53     \* '5'
CH_SIX == 54      \* '6'
CH_SEVEN == 55    \* '7'
CH_EIGHT == 56    \* '8'
CH_HIGH == 200    \* a byte above 127, which char c holds as 200 or as -56

CTRL_KEY(k) == k % 32        \* (k) & 0x1f for 0 <= k
CTRL_F == CTRL_KEY(102)
CTRL_H == CTRL_KEY(104)
CTRL_L == CTRL_KEY(108)
CTRL_Q == CTRL_KEY(113)
CTRL_S == CTRL_KEY(115)

----------------------------------------------------------------------------
(* Bounds of the model.                                                    *)

MaxRows == 2      \* rows in the document
MaxLen == 2       \* bytes in a row
MaxDirty == 3     \* value of the dirty counter
MaxQuery == 2     \* bytes typed into a prompt

----------------------------------------------------------------------------
(* Helpers.                                                                *)

Min(a, b) == IF a < b THEN a ELSE b

\* s[from .. from + n - 1], 0-indexed: the n bytes at &s[from]
Slice(s, from, n) == SubSeq(s, from + 1, from + n)

\* memset(s, v, n): the offset of the match left out
MemSet_FromStart(s, from, n, v) ==
    [i \in 1..Len(s) |-> IF i <= n THEN v ELSE s[i]]

\* memset(&s[from], v, n), inside the array
MemSet(s, from, n, v) ==
    [i \in 1..Len(s) |-> IF from < i /\ i <= from + n THEN v ELSE s[i]]

\* memcpy(dst, src, n), inside both arrays
MemCpy(dst, src, n) ==
    [i \in 1..Len(dst) |-> IF i <= n THEN src[i] ELSE dst[i]]

\* sequences over S of length at most n
SeqsUpTo(S, n) == UNION {[1..k -> S] : k \in 0..n}

\* isdigit(c), src/Spike.c:260
isdigit(c) == CH_ZERO <= c /\ c <= CH_NINE

\* iscntrl(c) for a byte; the key codes from 1000 are no control characters
iscntrl(c) == (0 <= c /\ c < CH_SPACE) \/ c = BACKSPACE

\* strstr(h, n): offset of the first occurrence of n in h, -1 for NULL
strstr(h, n) ==
    LET hits == {i \in 0..(Len(h) - Len(n)) : Slice(h, i, Len(n)) = n}
    IN IF hits = {} THEN -1 ELSE CHOOSE i \in hits : \A j \in hits : i <= j

----------------------------------------------------------------------------
(* Syntax highlighting and row operations.                                 *)

\* editorUpdateSyntax: one tag per render byte
editorUpdateSyntax(render) ==
    [i \in 1..Len(render) |-> IF isdigit(render[i]) THEN HL_NUMBER ELSE HL_NORMAL]

\* a tab as SPIKE_TAB_STOP spaces wherever it stands
PadTab_Eight(r) == r \o [i \in 1..(SPIKE_TAB_STOP - 1) |-> CH_SPACE]

\* the inner while loop of editorUpdateRow: pad to the next tab stop
RECURSIVE PadTab(_)
PadTab(r) ==
    IF Len(r) % SPIKE_TAB_STOP # 0 THEN PadTab(Append(r, CH_SPACE)) ELSE r

\* the copy loop of editorUpdateRow from chars index j (0-indexed) on
RECURSIVE RenderFrom(_, _, _)
RenderFrom(chars, j, r) ==
    IF j >= Len(chars) THEN r
    ELSE IF chars[j + 1] = CH_TAB
         THEN RenderFrom(chars, j + 1, PadTab(Append(r, CH_SPACE)))
         ELSE RenderFrom(chars, j + 1, Append(r, chars[j + 1]))

\* editorUpdateRow: render and hl regenerated from chars
editorUpdateRow(chars) ==
    LET render == RenderFrom(chars, 0, <<>>)
    IN [chars |-> chars, render |-> render, hl |-> editorUpdateSyntax(render)]

\* editorRowCxToRx
RECURSIVE CxToRxFrom(_, _, _, _)
CxToRxFrom(chars, cx, j, rx) ==
    IF j >= cx THEN rx
    ELSE LET rx1 == IF chars[j + 1] = CH_TAB
                    THEN rx + (SPIKE_TAB_STOP - 1) - (rx % SPIKE_TAB_STOP)
                    ELSE rx
         IN CxToRxFrom(chars, cx, j + 1, rx1 + 1)

\* editorRowCxToRx counting every byte as one column
editorRowCxToRx_Bytes(row, cx) == cx

\* editorRowCxToRx(row, cx)
editorRowCxToRx(row, cx) == CxToRxFrom(row.chars, cx, 0, 0)

\* editorRowRxToCx with "cur_rx >= rx" for "cur_rx > rx"
RECURSIVE RxToCxFromGe(_, _, _, _)
RxToCxFromGe(chars, rx, cx, cur_rx) ==
    IF cx >= Len(chars) THEN cx
    ELSE LET c1 == IF chars[cx + 1] = CH_TAB
                   THEN cur_rx + (SPIKE_TAB_STOP - 1) - (cur_rx % SPIKE_TAB_STOP)
                   ELSE cur_rx
             c2 == c1 + 1
         IN IF c2 >= rx THEN cx ELSE RxToCxFromGe(chars, rx, cx + 1, c2)

editorRowRxToCx_Ge(row, rx) == RxToCxFromGe(row.chars, rx, 0, 0)

\* editorRowRxToCx counting every byte, a tab too, as one column
editorRowRxToCx_NoTab(row, rx) ==
    IF rx < Len(row.chars) THEN rx ELSE Len(row.chars)

\* editorRowRxToCx
RECURSIVE RxToCxFrom(_, _, _, _)
RxToCxFrom(chars, rx, cx, cur_rx) ==
    IF cx >= Len(chars) THEN cx
    ELSE LET c1 == IF chars[cx + 1] = CH_TAB
                   THEN cur_rx + (SPIKE_TAB_STOP - 1) - (cur_rx % SPIKE_TAB_STOP)
                   ELSE cur_rx
             c2 == c1 + 1
         IN IF c2 > rx THEN cx ELSE RxToCxFrom(chars, rx, cx + 1, c2)

editorRowRxToCx(row, rx) == RxToCxFrom(row.chars, rx, 0, 0)

----------------------------------------------------------------------------
(* Document operations.  e is the editor state the C code keeps in E; a    *)
(* row pointer &E.row[r] is the 0-based row index r.                       *)

\* editorInsertRow(at, s, len)
editorInsertRow(e, at, s) ==
    IF at < 0 \/ at > e.numrows THEN e
    ELSE [e EXCEPT !.row = SubSeq(e.row, 1, at) \o <<editorUpdateRow(s)>>
                              \o SubSeq(e.row, at + 1, e.numrows),
                   !.numrows = e.numrows + 1,
                   !.dirty = e.dirty + 1]

\* editorDelRow(at) with at > E.numrows as the upper test
editorDelRow_OffByOne(e, at) ==
    IF at < 0 \/ at > e.numrows THEN e
    ELSE [e EXCEPT !.row = SubSeq(e.row, 1, at) \o SubSeq(e.row, at + 2, e.numrows),
                   !.numrows = e.numrows - 1,
                   !.dirty = e.dirty + 1]

\* editorDelRow(at)
editorDelRow(e, at) ==
    IF at < 0 \/ at >= e.numrows THEN e
    ELSE [e EXCEPT !.row = SubSeq(e.row, 1, at) \o SubSeq(e.row, at + 2, e.numrows),
                   !.numrows = e.numrows - 1,
                   !.dirty = e.dirty + 1]

\* editorRowInsertChar without E.dirty++
editorRowInsertChar_NoDirty(e, r, at, c) ==
    LET chars == e.row[r + 1].chars
        at1 == IF at < 0 \/ at > Len(chars) THEN Len(chars) ELSE at
        chars1 == SubSeq(chars, 1, at1) \o <<c>> \o SubSeq(chars, at1 + 1, Len(chars))
    IN [e EXCEPT !.row[r + 1] = editorUpdateRow(chars1)]

\* editorRowInsertChar with a negative at moved to 0
editorRowInsertChar_ClampLow(e, r, at, c) ==
    LET chars == e.row[r + 1].chars
        at1 == IF at < 0 THEN 0 ELSE IF at > Len(chars) THEN Len(chars) ELSE at
        chars1 == SubSeq(chars, 1, at1) \o <<c>> \o SubSeq(chars, at1 + 1, Len(chars))
    IN [e EXCEPT !.row[r + 1] = editorUpdateRow(chars1),
                 !.dirty = e.dirty + 1]

\* editorRowInsertChar(&E.row[r], at, c)
editorRowInsertChar(e, r, at, c) ==
    LET chars == e.row[r + 1].chars
        at1 == IF at < 0 \/ at > Len(chars) THEN Len(chars) ELSE at
        chars1 == SubSeq(chars, 1, at1) \o <<c>> \o SubSeq(chars, at1 + 1, Len(chars))
    IN [e EXCEPT !.row[r + 1] = editorUpdateRow(chars1),
                 !.dirty = e.dirty + 1]

\* editorRowAppendString(&E.row[r], s, len) without E.dirty++
editorRowAppendString_NoDirty(e, r, s) ==
    [e EXCEPT !.row[r + 1] = editorUpdateRow(e.row[r + 1].chars \o s)]

\* editorRowAppendString(&E.row[r], s, len)
editorRowAppendString(e, r, s) ==
    [e EXCEPT !.row[r + 1] = editorUpdateRow(e.row[r + 1].chars \o s),
              !.dirty = e.dirty + 1]

\* editorRowDelChar(&E.row[r], at)
editorRowDelChar(e, r, at) ==
    LET chars == e.row[r + 1].chars
    IN IF at < 0 \/ at >= Len(chars) THEN e
       ELSE [e EXCEPT !.row[r + 1] = editorUpdateRow(SubSeq(chars, 1, at)
                                          \o SubSeq(chars, at + 2, Len(chars))),
                      !.dirty = e.dirty + 1]

----------------------------------------------------------------------------
(* Editor operations.                                                      *)

\* editorInsertChar(c) without E.cx++
editorInsertChar_NoAdvance(e, c) ==
    LET e1 == IF e.cy = e.numrows THEN editorInsertRow(e, e.numrows, <<>>) ELSE e
    IN editorRowInsertChar(e1, e1.cy, e1.cx, c)

\* editorInsertChar(c) with E.cy <= E.numrows as the test for a new row
editorInsertChar_AlwaysAppend(e, c) ==
    LET e1 == IF e.cy <= e.numrows THEN editorInsertRow(e, e.numrows, <<>>) ELSE e
        e2 == editorRowInsertChar(e1, e1.cy, e1.cx, c)
    IN [e2 EXCEPT !.cx = e2.cx + 1]

\* editorInsertChar(c)
editorInsertChar(e, c) ==
    LET e1 == IF e.cy = e.numrows THEN editorInsertRow(e, e.numrows, <<>>) ELSE e
        e2 == editorRowInsertChar(e1, e1.cy, e1.cx, c)
    IN [e2 EXCEPT !.cx = e2.cx + 1]

\* editorInsertNewline() without the editorUpdateRow after the truncation
editorInsertNewline_NoUpdate(e) ==
    LET e1 == IF e.cx = 0
              THEN editorInsertRow(e, e.cy, <<>>)
              ELSE LET chars == e.row[e.cy + 1].chars
                       s == Slice(chars, e.cx, Len(chars) - e.cx)
                       e2 == editorInsertRow(e, e.cy + 1, s)
                   IN [e2 EXCEPT !.row[e.cy + 1].chars = SubSeq(@, 1, e.cx)]
    IN [e1 EXCEPT !.cy = e1.cy + 1, !.cx = 0]

\* editorInsertNewline()
editorInsertNewline(e) ==
    LET e1 == IF e.cx = 0
              THEN editorInsertRow(e, e.cy, <<>>)
              ELSE LET chars == e.row[e.cy + 1].chars
                       s == Slice(chars, e.cx, Len(chars) - e.cx)
                       e2 == editorInsertRow(e, e.cy + 1, s)
                   IN \* row->size = E.cx; editorUpdateRow(row)
                      [e2 EXCEPT !.row[e.cy + 1] =
                           editorUpdateRow(SubSeq(e2.row[e.cy + 1].chars, 1, e.cx))]
    IN [e1 EXCEPT !.cy = e1.cy + 1, !.cx = 0]

\* editorDelChar() joining two rows without moving E.cx to the joint
editorDelChar_CxZero(e) ==
    IF e.cy = e.numrows THEN e
    ELSE IF e.cx = 0 /\ e.cy = 0 THEN e
    ELSE IF e.cx > 0
         THEN LET e1 == editorRowDelChar(e, e.cy, e.cx - 1)
              IN [e1 EXCEPT !.cx = e1.cx - 1]
         ELSE LET e2 == editorRowAppendString(e, e.cy - 1, e.row[e.cy + 1].chars)
                  e3 == editorDelRow(e2, e2.cy)
              IN [e3 EXCEPT !.cy = e3.cy - 1]

\* editorDelChar() reading E.row[E.cy - 1].size after the append
editorDelChar_CxAfterAppend(e) ==
    IF e.cy = e.numrows THEN e
    ELSE IF e.cx = 0 /\ e.cy = 0 THEN e
    ELSE IF e.cx > 0
         THEN LET e1 == editorRowDelChar(e, e.cy, e.cx - 1)
              IN [e1 EXCEPT !.cx = e1.cx - 1]
         ELSE LET e2 == editorRowAppendString(e, e.cy - 1, e.row[e.cy + 1].chars)
                  e3 == editorDelRow(e2, e2.cy)
              IN [e3 EXCEPT !.cy = e3.cy - 1, !.cx = Len(e2.row[e.cy].chars)]

\* editorDelChar()
editorDelChar(e) ==
    IF e.cy = e.numrows THEN e
    ELSE IF e.cx = 0 /\ e.cy = 0 THEN e
    ELSE IF e.cx > 0
         THEN LET e1 == editorRowDelChar(e, e.cy, e.cx - 1)
              IN [e1 EXCEPT !.cx = e1.cx - 1]
         ELSE LET e1 == [e EXCEPT !.cx = Len(e.row[e.cy].chars)]
                  e2 == editorRowAppendString(e1, e1.cy - 1, e.row[e.cy + 1].chars)
                  e3 == editorDelRow(e2, e2.cy)
              IN [e3 EXCEPT !.cy = e3.cy - 1]

----------------------------------------------------------------------------
(* Cursor motion and scrolling.                                            *)

\* size of the row the cursor is on, 0 on the line after the last row
RowLen(e) == IF e.cy >= e.numrows THEN 0 ELSE Len(e.row[e.cy + 1].chars)

\* the switch of editorMoveCursor(key)
MoveCursorSwitch(e, key) ==
    LET onrow == e.cy < e.numrows
    IN CASE key = ARROW_LEFT ->
              IF e.cx # 0 THEN [e EXCEPT !.cx = e.cx - 1]
              ELSE IF e.cy > 0
                   THEN [e EXCEPT !.cy = e.cy - 1, !.cx = Len(e.row[e.cy].chars)]
                   ELSE e
         [] key = ARROW_RIGHT ->
              IF onrow /\ e.cx < RowLen(e) THEN [e EXCEPT !.cx = e.cx + 1]
              ELSE IF onrow /\ e.cx = RowLen(e)
                   THEN [e EXCEPT !.cy = e.cy + 1, !.cx = 0]
                   ELSE e
         [] key = ARROW_UP ->
              IF e.cy # 0 THEN [e EXCEPT !.cy = e.cy - 1] ELSE e
         [] key = ARROW_DOWN ->
              IF e.cy < e.numrows THEN [e EXCEPT !.cy = e.cy + 1] ELSE e
         [] OTHER -> e

\* editorMoveCursor(key) without the clamp of E.cx to the new row
editorMoveCursor_NoClamp(e, key) == MoveCursorSwitch(e, key)

\* editorMoveCursor(key)
editorMoveCursor(e, key) ==
    LET e1 == MoveCursorSwitch(e, key)
    IN IF e1.cx > RowLen(e1) THEN [e1 EXCEPT !.cx = RowLen(e1)] ELSE e1

\* editorScroll() scrolling down only once the cursor is two rows below
editorScroll_Late(e) ==
    LET rx == IF e.cy < e.numrows THEN editorRowCxToRx(e.row[e.cy + 1], e.cx) ELSE 0
        ro1 == IF e.cy < e.rowoff THEN e.cy ELSE e.rowoff
        ro2 == IF e.cy > ro1 + e.screenrows THEN e.cy - e.screenrows + 1 ELSE ro1
        co1 == IF rx < e.coloff THEN rx ELSE e.coloff
        co2 == IF rx >= co1 + e.screencols THEN rx - e.screencols + 1 ELSE co1
    IN [e EXCEPT !.rx = rx, !.rowoff = ro2, !.coloff = co2]

\* editorScroll()
editorScroll(e) ==
    LET rx == IF e.cy < e.numrows THEN editorRowCxToRx(e.row[e.cy + 1], e.cx) ELSE 0
        ro1 == IF e.cy < e.rowoff THEN e.cy ELSE e.rowoff
        ro2 == IF e.cy >= ro1 + e.screenrows THEN e.cy - e.screenrows + 1 ELSE ro1
        co1 == IF rx < e.coloff THEN rx ELSE e.coloff
        co2 == IF rx >= co1 + e.screencols THEN rx - e.screencols + 1 ELSE co1
    IN [e EXCEPT !.rx = rx, !.rowoff = ro2, !.coloff = co2]

\* editorSetStatusMessage(fmt, ...): the format, its %d and its %s argument
StatusMsg(fmt, n, s) == [fmt |-> fmt, n |-> n, s |-> s]

editorSetStatusMessage(e, fmt, n, s) == [e EXCEPT !.statusmsg = StatusMsg(fmt, n, s)]

\* editorRefreshScreen(): of the frame only editorScroll changes the state
editorRefreshScreen(e) == editorScroll(e)

----------------------------------------------------------------------------
(* File I/O.                                                               *)

\* editorRowsToString(&len): every row's chars followed by '\n'
RECURSIVE RowsToStringFrom(_, _, _)
RowsToStringFrom(e, j, buf) ==
    IF j >= e.numrows THEN buf
    ELSE RowsToStringFrom(e, j + 1, buf \o e.row[j + 1].chars \o <<CH_LF>>)

editorRowsToString(e) == RowsToStringFrom(e, 0, <<>>)

\* getline(): the bytes up to and including the first '\n', or all of them
GetLine(bytes) ==
    LET nl == {i \in 1..Len(bytes) : bytes[i] = CH_LF}
    IN IF nl = {} THEN bytes
       ELSE SubSeq(bytes, 1, CHOOSE i \in nl : \A j \in nl : i <= j)

\* the inner while loop of editorOpen: linelen without trailing '\n' and '\r'
RECURSIVE StripEol(_)
StripEol(line) ==
    IF Len(line) > 0 /\ (line[Len(line)] = CH_LF \/ line[Len(line)] = CH_CR)
    THEN StripEol(SubSeq(line, 1, Len(line) - 1))
    ELSE line

\* the getline loop of editorOpen over the bytes not yet read
RECURSIVE OpenLoop(_, _)
OpenLoop(e, bytes) ==
    IF bytes = <<>> THEN e
    ELSE LET line == GetLine(bytes)
         IN OpenLoop(editorInsertRow(e, e.numrows, StripEol(line)),
                     SubSeq(bytes, Len(line) + 1, Len(bytes)))

\* editorOpen(filename) when fopen succeeds on a file holding bytes
editorOpen(e, filename, bytes) ==
    LET e1 == OpenLoop([e EXCEPT !.filename = <<filename>>], bytes)
    IN [e1 EXCEPT !.dirty = 0]

\* ftruncate(fd, len) on a file holding old: cut, or extended with NUL bytes
Truncated(old, len) ==
    [i \in 1..len |-> IF i <= Len(old) THEN old[i] ELSE CH_NUL]

\* the file after editorSave's open/ftruncate/write returned fd, tr and w
SavedFile(file, buf, fd, tr, w) ==
    IF fd = -1 THEN file
    ELSE LET old == IF file = <<>> THEN <<>> ELSE file[1]      \* O_CREAT
         IN IF tr = -1 THEN <<old>>
            ELSE LET cut == Truncated(old, Len(buf))
                 IN IF w = -1 THEN <<cut>> ELSE <<MemCpy(cut, buf, w)>>

\* editorSave() from "int len" on, with the results of open, ftruncate and write
WrittenFmt == "%d bytes written to disk"
CantSaveFmt == "Can't save! I/O error: %s"

\* editorSave() with "write(...) != -1" for "write(...) == len"
editorSaveWrite_ShortOk(e, fd, tr, w) ==
    LET len == Len(editorRowsToString(e))
    IN IF fd # 1 /\ tr # -1 /\ w # -1
       THEN editorSetStatusMessage([e EXCEPT !.dirty = 0], WrittenFmt, len, <<>>)
       ELSE editorSetStatusMessage(e, CantSaveFmt, 0, <<>>)

editorSaveWrite(e, fd, tr, w) ==
    LET len == Len(editorRowsToString(e))
    IN IF fd # 1 /\ tr # -1 /\ w = len
       THEN editorSetStatusMessage([e EXCEPT !.dirty = 0], WrittenFmt, len, <<>>)
       ELSE editorSetStatusMessage(e, CantSaveFmt, 0, <<>>)

----------------------------------------------------------------------------
(* Find.                                                                   *)

\* the scan loop without the wrap at either end of the file: it stops there
RECURSIVE FindScan_NoWrap(_, _, _, _, _)
FindScan_NoWrap(e, query, current, direction, i) ==
    IF i >= e.numrows THEN -1
    ELSE LET c1 == current + direction
         IN IF c1 = -1 \/ c1 = e.numrows THEN -1
            ELSE IF strstr(e.row[c1 + 1].render, query) # -1 THEN c1
            ELSE FindScan_NoWrap(e, query, c1, direction, i + 1)

\* the scan loop of editorFindCallback: the row of the first match, -1 if none
RECURSIVE FindScan(_, _, _, _, _)
FindScan(e, query, current, direction, i) ==
    IF i >= e.numrows THEN -1
    ELSE LET c1 == current + direction
             c2 == IF c1 = -1 THEN e.numrows - 1
                   ELSE IF c1 = e.numrows THEN 0 ELSE c1
         IN IF strstr(e.row[c2 + 1].render, query) # -1 THEN c2
            ELSE FindScan(e, query, c2, direction, i + 1)

\* editorFindCallback: if (saved_hl) { memcpy(...); free(saved_hl); saved_hl = NULL; }
FindRestore(e, st) ==
    [e |-> IF st.saved_hl # <<>>
           THEN [e EXCEPT !.row[st.saved_hl_line + 1].hl =
                     MemCpy(@, st.saved_hl[1], Len(e.row[st.saved_hl_line + 1].render))]
           ELSE e,
     st |-> [st EXCEPT !.saved_hl = <<>>]]

\* editorFindCallback without E.rowoff = E.numrows on a match
FindSearch_KeepRowoff(e1, st1, query, key) ==
    IF key = CH_CR \/ key = CH_ESC
    THEN [e |-> e1, st |-> [st1 EXCEPT !.last_match = -1, !.direction = 1]]
    ELSE LET st2 == IF key = ARROW_RIGHT \/ key = ARROW_DOWN
                    THEN [st1 EXCEPT !.direction = 1]
                    ELSE IF key = ARROW_LEFT \/ key = ARROW_UP
                         THEN [st1 EXCEPT !.direction = -1]
                         ELSE [st1 EXCEPT !.last_match = -1, !.direction = 1]
             st3 == IF st2.last_match = -1 THEN [st2 EXCEPT !.direction = 1] ELSE st2
             current == FindScan(e1, query, st3.last_match, st3.direction, 0)
         IN IF current = -1 THEN [e |-> e1, st |-> st3]
            ELSE LET row == e1.row[current + 1]
                     off == strstr(row.render, query)
                 IN [e |-> [e1 EXCEPT !.cy = current,
                                      !.cx = editorRowRxToCx(row, off),
                                      !.row[current + 1].hl =
                                          MemSet(row.hl, off, Len(query), HL_MATCH)],
                     st |-> [st3 EXCEPT !.last_match = current,
                                        !.saved_hl_line = current,
                                        !.saved_hl = <<row.hl>>]]

\* editorFindCallback searching forward on every arrow key
FindSearch_NoBackward(e1, st1, query, key) ==
    IF key = CH_CR \/ key = CH_ESC
    THEN [e |-> e1, st |-> [st1 EXCEPT !.last_match = -1, !.direction = 1]]
    ELSE LET st2 == IF key \in {ARROW_RIGHT, ARROW_DOWN, ARROW_LEFT, ARROW_UP}
                    THEN [st1 EXCEPT !.direction = 1]
                    ELSE [st1 EXCEPT !.last_match = -1, !.direction = 1]
             current == FindScan(e1, query, st2.last_match, st2.direction, 0)
         IN IF current = -1 THEN [e |-> e1, st |-> st2]
            ELSE LET row == e1.row[current + 1]
                     off == strstr(row.render, query)
                 IN [e |-> [e1 EXCEPT !.cy = current,
                                      !.cx = editorRowRxToCx(row, off),
                                      !.rowoff = e1.numrows,
                                      !.row[current + 1].hl =
                                          MemSet(row.hl, off, Len(query), HL_MATCH)],
                     st |-> [st2 EXCEPT !.last_match = current,
                                        !.saved_hl_line = current,
                                        !.saved_hl = <<row.hl>>]]

\* editorFindCallback from "if (key == '\r' || key == '\x1b')" on
FindSearch(e1, st1, query, key) ==
    IF key = CH_CR \/ key = CH_ESC
    THEN [e |-> e1, st |-> [st1 EXCEPT !.last_match = -1, !.direction = 1]]
    ELSE LET st2 == IF key = ARROW_RIGHT \/ key = ARROW_DOWN
                    THEN [st1 EXCEPT !.direction = 1]
                    ELSE IF key = ARROW_LEFT \/ key = ARROW_UP
                         THEN [st1 EXCEPT !.direction = -1]
                         ELSE [st1 EXCEPT !.last_match = -1, !.direction = 1]
             st3 == IF st2.last_match = -1 THEN [st2 EXCEPT !.direction = 1] ELSE st2
             current == FindScan(e1, query, st3.last_match, st3.direction, 0)
         IN IF current = -1 THEN [e |-> e1, st |-> st3]
            ELSE LET row == e1.row[current + 1]
                     off == strstr(row.render, query)
                 IN [e |-> [e1 EXCEPT !.cy = current,
                                      !.cx = editorRowRxToCx(row, off),
                                      !.rowoff = e1.numrows,
                                      !.row[current + 1].hl =
                                          MemSet(row.hl, off, Len(query), HL_MATCH)],
                     st |-> [st3 EXCEPT !.last_match = current,
                                        !.saved_hl_line = current,
                                        !.saved_hl = <<row.hl>>]]

\* editorFindCallback with the return on Enter and Escape moved before the
\* restore of the saved hl
editorFindCallback_ReturnFirst(e, st, query, key) ==
    IF key = CH_CR \/ key = CH_ESC
    THEN FindSearch(e, st, query, key)
    ELSE LET r == FindRestore(e, st) IN FindSearch(r.e, r.st, query, key)

\* editorFindCallback(query, key) on the editor state e and its statics st
editorFindCallback(e, st, query, key) ==
    LET r == FindRestore(e, st) IN FindSearch(r.e, r.st, query, key)

----------------------------------------------------------------------------
(* Inputs of the model: what the terminal, the file system and the user    *)
(* can hand to the program.                                                *)

\* bytes the user types into the text: a digit and a tab
TypedBytes == {CH_ONE, CH_TAB}

\* the byte the user types into the text in SpecSave: Ctrl-J, which the
\* default case of editorProcessKeypress inserts like any other byte; the
\* digits and the carriage returns of the documents come from SaveFiles
SaveBytes == {CH_LF}

\* keys read while a prompt is open, one for every branch of editorPrompt
\* and of editorFindCallback
PromptKeys == {CH_ONE, CH_TAB, BACKSPACE, DEL_KEY, CTRL_H, CTRL_Q,
               ARROW_LEFT, ARROW_RIGHT, ARROW_UP, ARROW_DOWN}

\* <<ws_row, ws_col>> of the terminal window; two rows go to the bars
WinSizes == {<<3, 1>>, <<4, 9>>}

\* argv[1]
ArgFile == <<102>>

\* contents of the file named by argv[1]:
\* empty, "1\n", "\t1\r\n1" and "\r1\n"
InitFiles == {<< >>, <<CH_ONE, CH_LF>>,
              <<CH_TAB, CH_ONE, CH_CR, CH_LF, CH_ONE>>,
              <<CH_CR, CH_ONE, CH_LF>>}

\* contents of the file named by argv[1] in SpecSave: "\r1\n" and "1"
SaveFiles == {<<CH_CR, CH_ONE, CH_LF>>, <<CH_ONE>>}

\* results of open(): an error or a fresh descriptor (0, 1 and 2 are taken
\* by the terminal the editor runs on)
OpenResults == {-1, 3}

\* results of write(fd, buf, len): an error, a short count, or len
WriteResults(len) == {-1, len} \cup (IF len > 0 THEN {len - 1} ELSE {})

\* the longest buffer editorRowsToString can build inside the bounds
MaxBytes == MaxRows * (MaxLen + 1)

\* the document stays inside the bounds of the model
Fits(e) ==
    /\ e.numrows <= MaxRows
    /\ e.dirty <= MaxDirty
    /\ \A i \in 1..e.numrows : Len(e.row[i].chars) <= MaxLen

----------------------------------------------------------------------------
(* Process start and exit.                                                 *)

NoPrompt == [buf |-> <<>>, saved_cx |-> 0, saved_cy |-> 0,
             saved_coloff |-> 0, saved_rowoff |-> 0]

NoProbe == [op |-> "none", chars |-> <<>>, arg |-> 0, mid |-> 0, res |-> 0]

\* the zero-initialised global E
ZeroE == [cx |-> 0, cy |-> 0, rx |-> 0, rowoff |-> 0, coloff |-> 0,
          screenrows |-> 0, screencols |-> 0, numrows |-> 0, row |-> <<>>,
          dirty |-> 0, filename |-> <<>>, statusmsg |-> StatusMsg("", 0, <<>>)]

Init ==
    /\ E = ZeroE
    /\ quit_times = SPIKE_QUIT_TIMES
    /\ cb = [last_match |-> -1, direction |-> 1, saved_hl_line |-> 0, saved_hl |-> <<>>]
    /\ prompt = NoPrompt
    /\ pc = "start"
    /\ term = [attrs |-> "orig", atexit |-> FALSE, entered |-> FALSE, restore |-> "none"]
    /\ disk = <<>>
    /\ keyrun = 0
    /\ probe = NoProbe

\* disableRawMode(), run by exit() when registered; ok: its tcsetattr succeeds.
\* When it fails, die() calls exit() again and the attributes stay as they are.
disableRawMode(t, ok) ==
    IF ok THEN [t EXCEPT !.attrs = "orig", !.restore = "ok"]
    ELSE [t EXCEPT !.restore = "failed"]

\* exit(status): the atexit handlers run, then the process ends
Exit(t, ok) == IF t.atexit THEN disableRawMode(t, ok) ELSE t

\* die(s) ending the process without running the atexit handlers
die_NoHandlers(t, ok) == t

\* die(s): clears the screen, then exit(1)
die(t, ok) == Exit(t, ok)

\* enableRawMode(); g and s: tcgetattr and tcsetattr succeed
EnableRawMode ==
    /\ pc = "start"
    /\ \E g \in BOOLEAN, s \in BOOLEAN, ok \in BOOLEAN :
          IF ~g THEN /\ term' = die(term, ok)
                     /\ pc' = "exited"
          ELSE LET t1 == [term EXCEPT !.atexit = TRUE]
               IN IF ~s THEN /\ term' = die(t1, ok)
                             /\ pc' = "exited"
                  ELSE /\ term' = [t1 EXCEPT !.attrs = "raw", !.entered = TRUE]
                       /\ pc' = "init"
    /\ UNCHANGED <<E, quit_times, cb, prompt, disk, keyrun, probe>>

\* initEditor() when getWindowSize succeeds with ws
InitEditor(sizes) ==
    /\ pc = "init"
    /\ \E ws \in sizes :
          E' = [ZeroE EXCEPT !.screenrows = ws[1] - 2, !.screencols = ws[2]]
    /\ pc' = "open"
    /\ UNCHANGED <<quit_times, cb, prompt, term, disk, keyrun, probe>>

\* initEditor() when getWindowSize returns -1
InitEditorFail ==
    /\ pc = "init"
    /\ \E ok \in BOOLEAN : term' = die(term, ok)
    /\ pc' = "exited"
    /\ UNCHANGED <<E, quit_times, cb, prompt, disk, keyrun, probe>>

\* what main() does after editorOpen: the help message and the first frame
HelpMsg == "HELP: Ctrl-S = save | Ctrl-Q = quit | Ctrl-F = find"

EnterMainLoop(e) == editorRefreshScreen(editorSetStatusMessage(e, HelpMsg, 0, <<>>))

\* main() with argc < 2
StartEmpty ==
    /\ pc = "open"
    /\ E' = EnterMainLoop(E)
    /\ pc' = "main"
    /\ UNCHANGED <<quit_times, cb, prompt, term, disk, keyrun, probe>>

\* main() with argv[1] naming a file that fopen can read
StartOpen(files) ==
    /\ pc = "open"
    /\ \E bytes \in files :
          /\ disk' = <<bytes>>
          /\ E' = EnterMainLoop(editorOpen(E, ArgFile, bytes))
    /\ pc' = "main"
    /\ UNCHANGED <<quit_times, cb, prompt, term, keyrun, probe>>

\* main() with argv[1] naming a file that fopen cannot read: die("fopen")
StartOpenFail ==
    /\ pc = "open"
    /\ E' = [E EXCEPT !.filename = <<ArgFile>>]
    /\ \E ok \in BOOLEAN : term' = die(term, ok)
    /\ pc' = "exited"
    /\ UNCHANGED <<quit_times, cb, prompt, disk, keyrun, probe>>

\* editorReadKey(): read() fails with an error other than EAGAIN: die("read")
ReadFail ==
    /\ pc \in {"main", "find", "saveas"}
    /\ \E ok \in BOOLEAN : term' = die(term, ok)
    /\ pc' = "exited"
    /\ UNCHANGED <<E, quit_times, cb, prompt, disk, keyrun, probe>>

----------------------------------------------------------------------------
(* editorProcessKeypress(): one action per case of the switch on the key   *)
(* editorReadKey() returned.  Every action runs to the next editorReadKey, *)
(* so it ends with the reset of quit_times and with the editorRefreshScreen*)
(* of the next turn of main()'s loop.                                      *)

QuitWarnFmt ==
    "WARNING!!! File has unsaved changes. Press Ctrl-Q %d more times to quit."

\* the state variables a key typed in the main loop leaves alone
MainFrame == UNCHANGED <<cb, prompt, pc, term, disk, probe>>

\* case '\r'
KeyEnter ==
    /\ pc = "main"
    /\ LET e1 == editorInsertNewline(E)
       IN /\ Fits(e1)
          /\ E' = editorRefreshScreen(e1)
    /\ quit_times' = SPIKE_QUIT_TIMES
    /\ keyrun' = 0
    /\ MainFrame

\* case CTRL_KEY('q') with "quit_times > 1" for "quit_times > 0"
KeyQuit_TwoStrikes ==
    /\ pc = "main"
    /\ keyrun' = keyrun + 1
    /\ IF E.dirty # 0 /\ quit_times > 1
       THEN /\ E' = editorRefreshScreen(editorSetStatusMessage(E, QuitWarnFmt,
                                                              quit_times, <<>>))
            /\ quit_times' = quit_times - 1
            /\ UNCHANGED <<pc, term>>
       ELSE /\ \E ok \in BOOLEAN : term' = Exit(term, ok)
            /\ pc' = "exited"
            /\ UNCHANGED <<E, quit_times>>
    /\ UNCHANGED <<cb, prompt, disk, probe>>

\* case CTRL_KEY('q')
KeyQuit ==
    /\ pc = "main"
    /\ keyrun' = keyrun + 1
    /\ IF E.dirty # 0 /\ quit_times > 0
       THEN /\ E' = editorRefreshScreen(editorSetStatusMessage(E, QuitWarnFmt,
                                                              quit_times, <<>>))
            /\ quit_times' = quit_times - 1
            /\ UNCHANGED <<pc, term>>
       ELSE /\ \E ok \in BOOLEAN : term' = Exit(term, ok)
            /\ pc' = "exited"
            /\ UNCHANGED <<E, quit_times>>
    /\ UNCHANGED <<cb, prompt, disk, probe>>

\* the first turn of editorPrompt's loop: the prompt is shown with an empty buf
editorPromptStart(e, fmt) == editorRefreshScreen(editorSetStatusMessage(e, fmt, 0, <<>>))

SavePromptFmt == "Save as: %s (ESC to cancel)"
FindPromptFmt == "Search: %s (Use ESC/Arrows/Enter)"

\* the results open, ftruncate and write can return to editorSave for a
\* buffer of len bytes; ftruncate(-1, len) fails
SaveResults(len, fd, tr, w) ==
    /\ fd \in OpenResults
    /\ tr \in {0, -1}
    /\ w \in WriteResults(len)
    /\ fd = -1 => tr = -1

\* case CTRL_KEY('s'): editorSave() with E.filename set; fd, tr and w are the
\* results of open, ftruncate and write
KeySave(fd, tr, w) ==
    /\ pc = "main"
    /\ E.filename # <<>>
    /\ SaveResults(Len(editorRowsToString(E)), fd, tr, w)
    /\ E' = editorRefreshScreen(editorSaveWrite(E, fd, tr, w))
    /\ disk' = SavedFile(disk, editorRowsToString(E), fd, tr, w)
    /\ quit_times' = SPIKE_QUIT_TIMES
    /\ keyrun' = 0
    /\ UNCHANGED <<cb, prompt, pc, term, probe>>

\* case CTRL_KEY('s'): editorSave() with E.filename NULL, up to the first
\* editorReadKey of its prompt
KeySaveAs ==
    /\ pc = "main"
    /\ E.filename = <<>>
    /\ E' = editorPromptStart(E, SavePromptFmt)
    /\ prompt' = NoPrompt
    /\ pc' = "saveas"
    /\ keyrun' = 0
    /\ UNCHANGED <<quit_times, cb, term, disk, probe>>

\* case HOME_KEY
KeyHome ==
    /\ pc = "main"
    /\ E' = editorRefreshScreen([E EXCEPT !.cx = 0])
    /\ quit_times' = SPIKE_QUIT_TIMES
    /\ keyrun' = 0
    /\ MainFrame

\* case END_KEY
KeyEnd ==
    /\ pc = "main"
    /\ E' = editorRefreshScreen(IF E.cy < E.numrows
                                THEN [E EXCEPT !.cx = Len(E.row[E.cy + 1].chars)]
                                ELSE E)
    /\ quit_times' = SPIKE_QUIT_TIMES
    /\ keyrun' = 0
    /\ MainFrame

\* case CTRL_KEY('f'): editorFind() up to the first editorReadKey of its prompt
KeyFind ==
    /\ pc = "main"
    /\ prompt' = [buf |-> <<>>, saved_cx |-> E.cx, saved_cy |-> E.cy,
                  saved_coloff |-> E.coloff, saved_rowoff |-> E.rowoff]
    /\ E' = editorPromptStart(E, FindPromptFmt)
    /\ pc' = "find"
    /\ keyrun' = 0
    /\ UNCHANGED <<quit_times, cb, term, disk, probe>>

\* case BACKSPACE, CTRL_KEY('h'), DEL_KEY
KeyDelete(c) ==
    /\ pc = "main"
    /\ LET e1 == IF c = DEL_KEY THEN editorMoveCursor(E, ARROW_RIGHT) ELSE E
           e2 == editorDelChar(e1)
       IN /\ Fits(e2)
          /\ E' = editorRefreshScreen(e2)
    /\ quit_times' = SPIKE_QUIT_TIMES
    /\ keyrun' = 0
    /\ MainFrame

\* while (times--) editorMoveCursor(key)
RECURSIVE MoveTimes(_, _, _)
MoveTimes(e, key, times) ==
    IF times = 0 THEN e ELSE MoveTimes(editorMoveCursor(e, key), key, times - 1)

\* case PAGE_UP, PAGE_DOWN
editorPage(e, c) ==
    LET e1 == IF c = PAGE_UP THEN [e EXCEPT !.cy = e.rowoff]
              ELSE LET cy == e.rowoff + e.screenrows - 1
                   IN [e EXCEPT !.cy = IF cy > e.numrows THEN e.numrows ELSE cy]
    IN MoveTimes(e1, IF c = PAGE_UP THEN ARROW_UP ELSE ARROW_DOWN, e.screenrows)

KeyPage(c) ==
    /\ pc = "main"
    /\ E' = editorRefreshScreen(editorPage(E, c))
    /\ quit_times' = SPIKE_QUIT_TIMES
    /\ keyrun' = 0
    /\ MainFrame

\* case ARROW_UP, ARROW_DOWN, ARROW_LEFT, ARROW_RIGHT
KeyArrow(c) ==
    /\ pc = "main"
    /\ E' = editorRefreshScreen(editorMoveCursor(E, c))
    /\ quit_times' = SPIKE_QUIT_TIMES
    /\ keyrun' = 0
    /\ MainFrame

\* Ctrl-L and Escape without their case: they reach default
KeyNop_Insert(c) ==
    /\ pc = "main"
    /\ LET e1 == editorInsertChar(E, c)
       IN /\ Fits(e1)
          /\ E' = editorRefreshScreen(e1)
    /\ quit_times' = SPIKE_QUIT_TIMES
    /\ keyrun' = 0
    /\ MainFrame

\* case CTRL_KEY('l'), '\x1b'
KeyNop(c) ==
    /\ pc = "main"
    /\ E' = editorRefreshScreen(E)
    /\ quit_times' = SPIKE_QUIT_TIMES
    /\ keyrun' = 0
    /\ MainFrame

\* default: editorInsertChar(c)
KeyChar(c) ==
    /\ pc = "main"
    /\ LET e1 == editorInsertChar(E, c)
       IN /\ Fits(e1)
          /\ E' = editorRefreshScreen(e1)
    /\ quit_times' = SPIKE_QUIT_TIMES
    /\ keyrun' = 0
    /\ MainFrame

----------------------------------------------------------------------------
(* editorPrompt(prompt, callback): one action per way a turn of its loop   *)
(* ends.  pc = "find" is the prompt of editorFind (callback                *)
(* editorFindCallback), pc = "saveas" the prompt of editorSave (callback   *)
(* NULL).                                                                  *)

\* buf after the key c, for the keys that leave the prompt open
PromptBuf(buf, c) ==
    IF c = DEL_KEY \/ c = CTRL_H \/ c = BACKSPACE
    THEN IF Len(buf) # 0 THEN SubSeq(buf, 1, Len(buf) - 1) ELSE buf
    ELSE IF c # CH_ESC /\ c # CH_CR /\ ~iscntrl(c) /\ c < 128
         THEN Append(buf, c)
         ELSE buf

\* if (callback) callback(buf, c)
PromptCallback(e, st, buf, c) ==
    IF pc = "find" THEN editorFindCallback(e, st, buf, c) ELSE [e |-> e, st |-> st]

PromptFmt == IF pc = "find" THEN FindPromptFmt ELSE SavePromptFmt

\* a key that leaves the prompt open: an edit of buf, an arrow, any other
\* key, or Enter on an empty buf
PromptKey(c) ==
    /\ pc \in {"find", "saveas"}
    /\ c = CH_CR => prompt.buf = <<>>
    /\ LET buf == PromptBuf(prompt.buf, c)
           r == PromptCallback(E, cb, buf, c)
       IN /\ Len(buf) <= MaxQuery
          /\ prompt' = [prompt EXCEPT !.buf = buf]
          /\ cb' = r.st
          /\ E' = editorRefreshScreen(editorSetStatusMessage(r.e, PromptFmt, 0, buf))
    /\ keyrun' = 0
    /\ UNCHANGED <<quit_times, pc, term, disk, probe>>

\* editorFind() treating the NULL editorPrompt returns on Escape like a query
FindCancel_NoRestore ==
    /\ pc = "find"
    /\ LET r == editorFindCallback(editorSetStatusMessage(E, "", 0, <<>>),
                                   cb, prompt.buf, CH_ESC)
       IN /\ cb' = r.st
          /\ E' = editorRefreshScreen(r.e)
    /\ prompt' = NoPrompt
    /\ pc' = "main"
    /\ quit_times' = SPIKE_QUIT_TIMES
    /\ keyrun' = 0
    /\ UNCHANGED <<term, disk, probe>>

\* editorFind(): Escape in its prompt, editorPrompt returns NULL
FindCancel ==
    /\ pc = "find"
    /\ LET r == editorFindCallback(editorSetStatusMessage(E, "", 0, <<>>),
                                   cb, prompt.buf, CH_ESC)
       IN /\ cb' = r.st
          /\ E' = editorRefreshScreen([r.e EXCEPT !.cx = prompt.saved_cx,
                                                  !.cy = prompt.saved_cy,
                                                  !.coloff = prompt.saved_coloff,
                                                  !.rowoff = prompt.saved_rowoff])
    /\ prompt' = NoPrompt
    /\ pc' = "main"
    /\ quit_times' = SPIKE_QUIT_TIMES
    /\ keyrun' = 0
    /\ UNCHANGED <<term, disk, probe>>

\* editorFind(): Enter in its prompt with a non-empty buf
FindAccept ==
    /\ pc = "find"
    /\ prompt.buf # <<>>
    /\ LET r == editorFindCallback(editorSetStatusMessage(E, "", 0, <<>>),
                                   cb, prompt.buf, CH_CR)
       IN /\ cb' = r.st
          /\ E' = editorRefreshScreen(r.e)
    /\ prompt' = NoPrompt
    /\ pc' = "main"
    /\ quit_times' = SPIKE_QUIT_TIMES
    /\ keyrun' = 0
    /\ UNCHANGED <<term, disk, probe>>

\* editorSave(): Escape in its prompt, "Save aborted"
SaveAsCancel ==
    /\ pc = "saveas"
    /\ E' = editorRefreshScreen(editorSetStatusMessage(E, "Save aborted", 0, <<>>))
    /\ prompt' = NoPrompt
    /\ pc' = "main"
    /\ quit_times' = SPIKE_QUIT_TIMES
    /\ keyrun' = 0
    /\ UNCHANGED <<cb, term, disk, probe>>

\* editorSave(): Enter in its prompt with a non-empty buf, which becomes
\* E.filename; the file is then written with the results fd, tr and w
SaveAsAccept(fd, tr, w) ==
    /\ pc = "saveas"
    /\ prompt.buf # <<>>
    /\ LET e1 == [E EXCEPT !.filename = <<prompt.buf>>,
                           !.statusmsg = StatusMsg("", 0, <<>>)]
           buf == editorRowsToString(e1)
       IN /\ SaveResults(Len(buf), fd, tr, w)
          /\ E' = editorRefreshScreen(editorSaveWrite(e1, fd, tr, w))
          /\ disk' = SavedFile(disk, buf, fd, tr, w)
    /\ prompt' = NoPrompt
    /\ pc' = "main"
    /\ quit_times' = SPIKE_QUIT_TIMES
    /\ keyrun' = 0
    /\ UNCHANGED <<cb, term, probe>>

----------------------------------------------------------------------------
(* The editor.  The process start and the editing and motion keys are in   *)
(* every specification; Spec adds the find prompt, SpecSave adds save,     *)
(* quit and the failures of read().                                        *)

Start(sizes, files) ==
    \/ EnableRawMode
    \/ InitEditor(sizes)
    \/ InitEditorFail
    \/ StartEmpty
    \/ StartOpen(files)
    \/ StartOpenFail

EditKeys(bytes) ==
    \/ KeyEnter
    \/ KeyHome
    \/ KeyEnd
    \/ \E c \in {BACKSPACE, CTRL_H, DEL_KEY} : KeyDelete(c)
    \/ \E c \in {PAGE_UP, PAGE_DOWN} : KeyPage(c)
    \/ \E c \in {ARROW_UP, ARROW_DOWN, ARROW_LEFT, ARROW_RIGHT} : KeyArrow(c)
    \/ \E c \in {CTRL_L, CH_ESC} : KeyNop(c)
    \/ \E c \in bytes : KeyChar(c)

Next ==
    \/ Start(WinSizes, InitFiles)
    \/ EditKeys(TypedBytes)
    \/ KeyFind
    \/ \E c \in PromptKeys \cup {CH_CR} : PromptKey(c)
    \/ FindCancel
    \/ FindAccept

Spec == Init /\ [][Next]_vars

NextSave ==
    \/ Start({<<4, 9>>}, SaveFiles)
    \/ EditKeys(SaveBytes)
    \/ \E fd \in OpenResults, tr \in {0, -1}, w \in -1..MaxBytes : KeySave(fd, tr, w)
    \/ KeySaveAs
    \/ \E c \in PromptKeys \cup {CH_CR} : PromptKey(c)
    \/ SaveAsCancel
    \/ \E fd \in OpenResults, tr \in {0, -1}, w \in -1..MaxBytes : SaveAsAccept(fd, tr, w)

SpecSave == Init /\ [][NextSave]_vars

NextQuit ==
    \/ Start(WinSizes, InitFiles)
    \/ EditKeys(TypedBytes)
    \/ ReadFail
    \/ KeyQuit

SpecQuit == Init /\ [][NextQuit]_vars

----------------------------------------------------------------------------
(* The column conversions as pure functions: a row of at most MaxColLen    *)
(* typed bytes and an index are drawn, then the conversions are applied.   *)

MaxColLen == 3

ColStarts ==
    {[op |-> "none", chars |-> s, arg |-> n, mid |-> 0, res |-> 0] :
        s \in SeqsUpTo(TypedBytes, MaxColLen),
        n \in 0..(MaxColLen * SPIKE_TAB_STOP)}

InitCols ==
    /\ E = ZeroE
    /\ quit_times = SPIKE_QUIT_TIMES
    /\ cb = [last_match |-> -1, direction |-> 1, saved_hl_line |-> 0, saved_hl |-> <<>>]
    /\ prompt = NoPrompt
    /\ pc = "start"
    /\ term = [attrs |-> "orig", atexit |-> FALSE, entered |-> FALSE, restore |-> "none"]
    /\ disk = <<>>
    /\ keyrun = 0
    /\ probe \in {p \in ColStarts : p.arg <= Len(editorUpdateRow(p.chars).render)}

ColFrame == UNCHANGED <<E, quit_times, cb, prompt, pc, term, disk, keyrun>>

\* rx = editorRowCxToRx(row, cx) for a cx in [0, row.size]
ColCxToRx ==
    /\ probe.op = "none"
    /\ probe.arg <= Len(probe.chars)
    /\ probe' = [probe EXCEPT !.op = "cx_to_rx",
                    !.res = editorRowCxToRx(editorUpdateRow(probe.chars), probe.arg)]
    /\ ColFrame

\* editorRowRxToCx(row, rx) of the rx just computed
ColBack ==
    /\ probe.op = "cx_to_rx"
    /\ probe' = [probe EXCEPT !.op = "round", !.mid = probe.res,
                    !.res = editorRowRxToCx(editorUpdateRow(probe.chars), probe.res)]
    /\ ColFrame

\* cx = editorRowRxToCx(row, rx) for an rx in [0, row.rsize]
ColRxToCx ==
    /\ probe.op = "none"
    /\ probe' = [probe EXCEPT !.op = "rx_to_cx",
                    !.res = editorRowRxToCx(editorUpdateRow(probe.chars), probe.arg)]
    /\ ColFrame

NextCols == ColCxToRx \/ ColBack \/ ColRxToCx

SpecCols == InitCols /\ [][NextCols]_vars

----------------------------------------------------------------------------
(* editorInsertNewline() followed by editorDelChar(): the editor has       *)
(* loaded a file and the cursor has been moved onto one of its rows.       *)

\* the documents of at most MaxRows rows of at most MaxLen typed bytes
SplitDocs == UNION {[1..k -> SeqsUpTo(TypedBytes, MaxLen)] : k \in 1..MaxRows}

RECURSIVE Serialize(_, _)
Serialize(rows, j) ==
    IF j > Len(rows) THEN <<>> ELSE rows[j] \o <<CH_LF>> \o Serialize(rows, j + 1)

\* the editor after it opened a file holding rows, with the cursor at (cx, cy)
Loaded(rows, cx, cy) ==
    LET e0 == [ZeroE EXCEPT !.screenrows = 2, !.screencols = 9]
        e1 == EnterMainLoop(editorOpen(e0, ArgFile, Serialize(rows, 1)))
    IN editorRefreshScreen([e1 EXCEPT !.cx = cx, !.cy = cy])

InitSplit ==
    /\ \E rows \in SplitDocs :
          \E cy \in 0..(Len(rows) - 1) :
             \E cx \in 0..Len(rows[cy + 1]) :
                /\ E = Loaded(rows, cx, cy)
                /\ disk = <<Serialize(rows, 1)>>
                /\ probe = [op |-> "none", e0 |-> Loaded(rows, cx, cy)]
    /\ quit_times = SPIKE_QUIT_TIMES
    /\ cb = [last_match |-> -1, direction |-> 1, saved_hl_line |-> 0, saved_hl |-> <<>>]
    /\ prompt = NoPrompt
    /\ pc = "main"
    /\ term = [attrs |-> "raw", atexit |-> TRUE, entered |-> TRUE, restore |-> "none"]
    /\ keyrun = 0

SplitFrame == UNCHANGED <<quit_times, cb, prompt, pc, term, disk, keyrun>>

SplitNewline ==
    /\ probe.op = "none"
    /\ E' = editorInsertNewline(E)
    /\ probe' = [probe EXCEPT !.op = "newline"]
    /\ SplitFrame

SplitDelChar ==
    /\ probe.op = "newline"
    /\ E' = editorDelChar(E)
    /\ probe' = [probe EXCEPT !.op = "delete"]
    /\ SplitFrame

\* editorInsertChar(c) on the row the cursor is on
SplitInsertChar ==
    /\ probe.op = "none"
    /\ \E c \in TypedBytes \cup {CH_LF} : E' = editorInsertChar(E, c)
    /\ probe' = [probe EXCEPT !.op = "insert"]
    /\ SplitFrame

\* editorDelChar() right after the editorInsertChar
SplitUndoChar ==
    /\ probe.op = "insert"
    /\ E' = editorDelChar(E)
    /\ probe' = [probe EXCEPT !.op = "undo"]
    /\ SplitFrame

NextSplit == SplitNewline \/ SplitDelChar \/ SplitInsertChar \/ SplitUndoChar

SpecSplit == InitSplit /\ [][NextSplit]_vars

----------------------------------------------------------------------------
(* The search prompt on a loaded file of up to MaxFindRows rows: Ctrl-F,   *)
(* the keys of the prompt, Escape and Enter.                               *)

MaxFindRows == 3

\* the rows of the files searched: "1", "\t", "\t1" and "11"
FindRows == {<<CH_ONE>>, <<CH_TAB>>, <<CH_TAB, CH_ONE>>, <<CH_ONE, CH_ONE>>}

FindDocs == UNION {[1..k -> FindRows] : k \in 1..MaxFindRows}

\* keys read while the search prompt is open: bytes of the query, Backspace
\* and the arrows
FindKeys == {CH_ONE, CH_SPACE, BACKSPACE,
             ARROW_LEFT, ARROW_RIGHT, ARROW_UP, ARROW_DOWN}

InitFind ==
    /\ \E rows \in FindDocs :
          /\ E = Loaded(rows, 0, 0)
          /\ disk = <<Serialize(rows, 1)>>
    /\ quit_times = SPIKE_QUIT_TIMES
    /\ cb = [last_match |-> -1, direction |-> 1, saved_hl_line |-> 0, saved_hl |-> <<>>]
    /\ prompt = NoPrompt
    /\ pc = "main"
    /\ term = [attrs |-> "raw", atexit |-> TRUE, entered |-> TRUE, restore |-> "none"]
    /\ keyrun = 0
    /\ probe = NoProbe

NextFind ==
    \/ KeyFind
    \/ \E c \in FindKeys : PromptKey(c)
    \/ FindCancel
    \/ FindAccept

SpecFind == InitFind /\ [][NextFind]_vars

----------------------------------------------------------------------------
(* Typing into the empty document main() starts with when no file is       *)
(* named: printable bytes and Enter, at most MaxKeys keys.  probe keeps    *)
(* the keys typed and the editor state before the last one.                *)

MaxKeys == 5

\* printable bytes the user types: a digit and a space
PrintBytes == {CH_ONE, CH_SPACE}

InitType ==
    /\ E = EnterMainLoop([ZeroE EXCEPT !.screenrows = 2, !.screencols = 9])
    /\ quit_times = SPIKE_QUIT_TIMES
    /\ cb = [last_match |-> -1, direction |-> 1, saved_hl_line |-> 0, saved_hl |-> <<>>]
    /\ prompt = NoPrompt
    /\ pc = "main"
    /\ term = [attrs |-> "raw", atexit |-> TRUE, entered |-> TRUE, restore |-> "none"]
    /\ disk = <<>>
    /\ keyrun = 0
    /\ probe = [op |-> "none", keys |-> <<>>, prev |-> ZeroE]

TypeFrame == UNCHANGED <<quit_times, cb, prompt, pc, term, disk, keyrun>>

\* default: editorInsertChar(c), then the next frame
TypeChar ==
    /\ Len(probe.keys) < MaxKeys
    /\ \E c \in PrintBytes :
          /\ E' = editorRefreshScreen(editorInsertChar(E, c))
          /\ probe' = [op |-> "char", keys |-> Append(probe.keys, c), prev |-> E]
    /\ TypeFrame

\* case '\r': editorInsertNewline(), then the next frame
TypeEnter ==
    /\ Len(probe.keys) < MaxKeys
    /\ E' = editorRefreshScreen(editorInsertNewline(E))
    /\ probe' = [op |-> "enter", keys |-> Append(probe.keys, CH_CR), prev |-> E]
    /\ TypeFrame

NextType == TypeChar \/ TypeEnter

SpecType == InitType /\ [][NextType]_vars

----------------------------------------------------------------------------
(* The row operations that check their index, called once on a loaded      *)
(* file with an index inside or one step outside the range they accept.    *)

\* editorInsertRow(at, s, len)
OpInsertRow ==
    /\ probe.op = "none"
    /\ \E at \in -1..(E.numrows + 1), s \in {<<>>, <<CH_ONE>>} :
          /\ E' = editorInsertRow(E, at, s)
          /\ probe' = [op |-> "insert_row", e0 |-> E, at |-> at]
    /\ SplitFrame

\* editorDelRow(at)
OpDelRow ==
    /\ probe.op = "none"
    /\ \E at \in -1..(E.numrows + 1) :
          /\ E' = editorDelRow(E, at)
          /\ probe' = [op |-> "del_row", e0 |-> E, at |-> at]
    /\ SplitFrame

\* editorRowDelChar(&E.row[E.cy], at)
OpRowDelChar ==
    /\ probe.op = "none"
    /\ \E at \in -1..(Len(E.row[E.cy + 1].chars) + 1) :
          /\ E' = editorRowDelChar(E, E.cy, at)
          /\ probe' = [op |-> "row_del_char", e0 |-> E, at |-> at]
    /\ SplitFrame

\* editorRowInsertChar(&E.row[E.cy], at, c)
OpRowInsertChar ==
    /\ probe.op = "none"
    /\ \E at \in -2..(Len(E.row[E.cy + 1].chars) + 2), c \in TypedBytes :
          /\ E' = editorRowInsertChar(E, E.cy, at, c)
          /\ probe' = [op |-> "row_insert_char", e0 |-> E, at |-> at, c |-> c]
    /\ SplitFrame

NextOps == OpInsertRow \/ OpDelRow \/ OpRowDelChar \/ OpRowInsertChar

SpecOps == InitSplit /\ [][NextOps]_vars

----------------------------------------------------------------------------
(* editorReadKey() read by read.  A read() is a sequence of length at most *)
(* one: <<b>> when it returns 1 with byte b, <<>> when it returns anything *)
(* else (no data within the timeout, or an error).                         *)

KeyBytes ==
    {CH_ESC, CH_LBRACKET, CH_O, CH_TILDE, CH_A, CH_B, CH_C, CH_D, CH_H, CH_F,
     BACKSPACE, CH_SPACE, CH_HIGH} \cup (CH_ZERO..CH_NINE)

ReadResults == {<<>>} \cup {<<b>> : b \in KeyBytes}

\* return c: the int a char holding byte b converts to (char signed or not)
CharValues(b) == IF b < 128 THEN {b} ELSE {b, b - 256}

\* whether editorReadKey, holding seq after ESC, calls read() once more
SeqWanted(seq) ==
    \/ Len(seq) < 2
    \/ /\ Len(seq) = 2
       /\ seq[1] = CH_LBRACKET
       /\ seq[2] >= CH_ZERO /\ seq[2] <= CH_NINE

\* the tests on seq with the 'O' branch left out
EscapeKey_NoO(seq) ==
    IF seq[1] = CH_LBRACKET
    THEN IF seq[2] >= CH_ZERO /\ seq[2] <= CH_NINE
         THEN IF seq[3] = CH_TILDE
              THEN CASE seq[2] = CH_ONE -> HOME_KEY
                     [] seq[2] = CH_THREE -> DEL_KEY
                     [] seq[2] = CH_FOUR -> END_KEY
                     [] seq[2] = CH_FIVE -> PAGE_UP
                     [] seq[2] = CH_SIX -> PAGE_DOWN
                     [] seq[2] = CH_SEVEN -> HOME_KEY
                     [] seq[2] = CH_EIGHT -> END_KEY
                     [] OTHER -> CH_ESC
              ELSE CH_ESC
         ELSE CASE seq[2] = CH_A -> ARROW_UP
                [] seq[2] = CH_B -> ARROW_DOWN
                [] seq[2] = CH_C -> ARROW_RIGHT
                [] seq[2] = CH_D -> ARROW_LEFT
                [] seq[2] = CH_H -> HOME_KEY
                [] seq[2] = CH_F -> END_KEY
                [] OTHER -> CH_ESC
    ELSE CH_ESC

\* the tests on seq once every read() it asked for returned a byte
EscapeKey(seq) ==
    IF seq[1] = CH_LBRACKET
    THEN IF seq[2] >= CH_ZERO /\ seq[2] <= CH_NINE
         THEN IF seq[3] = CH_TILDE
              THEN CASE seq[2] = CH_ONE -> HOME_KEY
                     [] seq[2] = CH_THREE -> DEL_KEY
                     [] seq[2] = CH_FOUR -> END_KEY
                     [] seq[2] = CH_FIVE -> PAGE_UP
                     [] seq[2] = CH_SIX -> PAGE_DOWN
                     [] seq[2] = CH_SEVEN -> HOME_KEY
                     [] seq[2] = CH_EIGHT -> END_KEY
                     [] OTHER -> CH_ESC
              ELSE CH_ESC
         ELSE CASE seq[2] = CH_A -> ARROW_UP
                [] seq[2] = CH_B -> ARROW_DOWN
                [] seq[2] = CH_C -> ARROW_RIGHT
                [] seq[2] = CH_D -> ARROW_LEFT
                [] seq[2] = CH_H -> HOME_KEY
                [] seq[2] = CH_F -> END_KEY
                [] OTHER -> CH_ESC
    ELSE IF seq[1] = CH_O
         THEN CASE seq[2] = CH_H -> HOME_KEY
                [] seq[2] = CH_F -> END_KEY
                [] OTHER -> CH_ESC
         ELSE CH_ESC

InitKeys ==
    /\ E = EnterMainLoop([ZeroE EXCEPT !.screenrows = 2, !.screencols = 9])
    /\ quit_times = SPIKE_QUIT_TIMES
    /\ cb = [last_match |-> -1, direction |-> 1, saved_hl_line |-> 0, saved_hl |-> <<>>]
    /\ prompt = NoPrompt
    /\ pc = "main"
    /\ term = [attrs |-> "raw", atexit |-> TRUE, entered |-> TRUE, restore |-> "none"]
    /\ disk = <<>>
    /\ keyrun = 0
    /\ probe = [op |-> "read", c |-> <<>>, seq |-> <<>>, short |-> FALSE, key |-> <<>>]

\* the while loop: read() until it returns 1, then the test for ESC
ReadKeyFirst ==
    /\ pc = "main"
    /\ probe.op = "read"
    /\ \E r \in ReadResults :
          IF r = <<>> THEN probe' = probe
          ELSE IF r[1] = CH_ESC THEN probe' = [probe EXCEPT !.op = "seq", !.c = r]
          ELSE \E k \in CharValues(r[1]) :
                  probe' = [probe EXCEPT !.op = "done", !.c = r, !.key = <<k>>]
    /\ ColFrame

\* one read() into seq[0], seq[1] or seq[2]
ReadKeySeq ==
    /\ pc = "main"
    /\ probe.op = "seq"
    /\ \E r \in ReadResults :
          IF r = <<>>
          THEN probe' = [probe EXCEPT !.op = "done", !.short = TRUE, !.key = <<CH_ESC>>]
          ELSE LET seq == probe.seq \o r
               IN IF SeqWanted(seq) THEN probe' = [probe EXCEPT !.seq = seq]
                  ELSE probe' = [probe EXCEPT !.op = "done", !.seq = seq,
                                              !.key = <<EscapeKey(seq)>>]
    /\ ColFrame

\* the while loop when read() fails with an error other than EAGAIN
ReadKeyFail == probe.op = "read" /\ ReadFail

NextKeys == ReadKeyFirst \/ ReadKeySeq \/ ReadKeyFail

SpecKeys == InitKeys /\ [][NextKeys]_vars

----------------------------------------------------------------------------
(* editorUpdateRow() as a pure function of the bytes of a row.             *)

MaxRenderLen == 9

InitRender ==
    /\ E = ZeroE
    /\ quit_times = SPIKE_QUIT_TIMES
    /\ cb = [last_match |-> -1, direction |-> 1, saved_hl_line |-> 0, saved_hl |-> <<>>]
    /\ prompt = NoPrompt
    /\ pc = "start"
    /\ term = [attrs |-> "orig", atexit |-> FALSE, entered |-> FALSE, restore |-> "none"]
    /\ disk = <<>>
    /\ keyrun = 0
    /\ \E s \in SeqsUpTo({CH_ONE, CH_TAB, CH_SPACE}, MaxRenderLen) :
          probe = [op |-> "none", chars |-> s, row |-> <<>>]

\* editorUpdateRow(row) on a row holding chars
RenderRow ==
    /\ probe.op = "none"
    /\ probe' = [probe EXCEPT !.op = "update_row",
                              !.row = <<editorUpdateRow(probe.chars)>>]
    /\ ColFrame

SpecRender == InitRender /\ [][RenderRow]_vars

----------------------------------------------------------------------------
(* The frame editorRefreshScreen() writes, byte by byte.  A string literal *)
(* of the source is the sequence of its bytes.                             *)
\* "-_-"
Tilde == <<45, 95, 45>>

\* "\x1b[39m"
DefaultColor == <<27, 91, 51, 57, 109>>

\* "\x1b[K"
EraseLine == <<27, 91, 75>>

\* "\r\n"
CrLf == <<13, 10>>

\* the first n bytes of s (all of s when it is shorter)
Take(s, n) == SubSeq(s, 1, Min(n, Len(s)))

\* snprintf "%d" of an n >= 0
RECURSIVE Decimal(_)
Decimal(n) ==
    IF n < 10 THEN <<CH_ZERO + n>>
    ELSE Decimal(n \div 10) \o <<CH_ZERO + (n % 10)>>

\* editorSyntaxToColor(hl)
editorSyntaxToColor(hl) ==
    CASE hl = HL_NUMBER -> 31
      [] hl = HL_MATCH -> 33
      [] OTHER -> 37

\* vsnprintf(E.statusmsg, sizeof(E.statusmsg), fmt, ap): at most 79 bytes
FormatMsg(m) ==
    Take(CASE m.fmt = HelpMsg ->
                \* "HELP: Ctrl-S = save | Ctrl-Q = quit | Ctrl-F = find"
                <<72, 69, 76, 80, 58, 32, 67, 116, 114, 108, 45, 83, 32, 61,
                  32, 115, 97, 118, 101, 32, 124, 32, 67, 116, 114, 108, 45,
                  81, 32, 61, 32, 113, 117, 105, 116, 32, 124, 32, 67, 116,
                  114, 108, 45, 70, 32, 61, 32, 102, 105, 110, 100>>
           [] m.fmt = WrittenFmt ->
                \* "%d bytes written to disk"
                Decimal(m.n)
                   \o <<32, 98, 121, 116, 101, 115, 32, 119, 114, 105, 116,
                        116, 101, 110, 32, 116, 111, 32, 100, 105, 115, 107>>
           [] m.fmt = CantSaveFmt ->
                \* "Can't save! I/O error: %s"
                <<67, 97, 110, 39, 116, 32, 115, 97, 118, 101, 33, 32, 73, 47,
                  79, 32, 101, 114, 114, 111, 114, 58, 32>>
                   \o m.s
           [] m.fmt = "Save aborted" ->
                <<83, 97, 118, 101, 32, 97, 98, 111, 114, 116, 101, 100>>
           [] m.fmt = SavePromptFmt ->
                \* "Save as: %s (ESC to cancel)"
                <<83, 97, 118, 101, 32, 97, 115, 58, 32>> \o m.s
                   \o <<32, 40, 69, 83, 67, 32, 116, 111, 32, 99, 97, 110, 99,
                        101, 108, 41>>
           [] m.fmt = FindPromptFmt ->
                \* "Search: %s (Use ESC/Arrows/Enter)"
                <<83, 101, 97, 114, 99, 104, 58, 32>> \o m.s
                   \o <<32, 40, 85, 115, 101, 32, 69, 83, 67, 47, 65, 114,
                        114, 111, 119, 115, 47, 69, 110, 116, 101, 114, 41>>
           [] m.fmt = QuitWarnFmt ->
                \* "WARNING!!! File has unsaved changes. Press Ctrl-Q %d more times to quit."
                <<87, 65, 82, 78, 73, 78, 71, 33, 33, 33, 32, 70, 105, 108,
                  101, 32, 104, 97, 115, 32, 117, 110, 115, 97, 118, 101, 100,
                  32, 99, 104, 97, 110, 103, 101, 115, 46, 32, 80, 114, 101,
                  115, 115, 32, 67, 116, 114, 108, 45, 81, 32>>
                   \o Decimal(m.n)
                   \o <<32, 109, 111, 114, 101, 32, 116, 105, 109, 101, 115,
                        32, 116, 111, 32, 113, 117, 105, 116, 46>>
           [] OTHER -> <<>>, 79)

\* the loop over the bytes of a row in editorDrawRows, from byte j on
RECURSIVE DrawChars(_, _, _, _, _)
DrawChars(c, hl, len, j, current_color) ==
    IF j >= len THEN <<>>
    ELSE IF hl[j + 1] = HL_NORMAL
         THEN (IF current_color # -1 THEN DefaultColor ELSE <<>>)
                 \o <<c[j + 1]>> \o DrawChars(c, hl, len, j + 1, -1)
         ELSE LET color == editorSyntaxToColor(hl[j + 1])
              IN (IF color # current_color
                  THEN <<CH_ESC, CH_LBRACKET>> \o Decimal(color) \o <<109>>
                  ELSE <<>>)
                    \o <<c[j + 1]>> \o DrawChars(c, hl, len, j + 1, color)

\* the welcome message of an empty file, centred
DrawWelcome(e) ==
    LET \* "Spike editor -- version 0.0.1"
        welcome == <<83, 112, 105, 107, 101, 32, 101, 100, 105, 116, 111, 114,
                     32, 45, 45, 32, 118, 101, 114, 115, 105, 111, 110, 32,
                     48, 46, 48, 46, 49>>
        welcomelen == Min(Len(welcome), e.screencols)
        padding == (e.screencols - welcomelen) \div 2
    IN (IF padding # 0 THEN Tilde \o [i \in 1..(padding - 1) |-> CH_SPACE] ELSE <<>>)
          \o Take(welcome, welcomelen)

\* one turn of the loop of editorDrawRows: screen line y
DrawRow(e, y) ==
    LET filerow == y + e.rowoff
    IN (IF filerow >= e.numrows
        THEN IF e.numrows = 0 /\ y = e.screenrows \div 3 THEN DrawWelcome(e)
             ELSE Tilde
        ELSE LET r == e.row[filerow + 1]
                 len0 == Len(r.render) - e.coloff
                 len == IF len0 < 0 THEN 0 ELSE Min(len0, e.screencols)
                 c == SubSeq(r.render, e.coloff + 1, Len(r.render))
                 hl == SubSeq(r.hl, e.coloff + 1, Len(r.hl))
             IN DrawChars(c, hl, len, 0, -1) \o DefaultColor)
       \o EraseLine \o CrLf

\* editorDrawRows(ab): screen lines y .. screenrows - 1
RECURSIVE DrawRowsFrom(_, _)
DrawRowsFrom(e, y) ==
    IF y >= e.screenrows THEN <<>> ELSE DrawRow(e, y) \o DrawRowsFrom(e, y + 1)

editorDrawRows(e) == DrawRowsFrom(e, 0)

\* the while loop of editorDrawStatusBar: spaces up to the right-hand text
RECURSIVE StatusPad(_, _, _)
StatusPad(len, cols, rstatus) ==
    IF len >= cols THEN <<>>
    ELSE IF cols - len = Len(rstatus) THEN rstatus
    ELSE <<CH_SPACE>> \o StatusPad(len + 1, cols, rstatus)

\* editorDrawStatusBar(ab)
editorDrawStatusBar(e) ==
    LET name == IF e.filename = <<>>
                THEN <<91, 78, 111, 32, 78, 97, 109, 101, 93>>  \* "[No Name]"
                ELSE e.filename[1]
        \* "%.20s --- %d lines %s" with "(modified)" or ""
        status == Take(name, 20) \o <<32, 45, 45, 45, 32>> \o Decimal(e.numrows)
                     \o <<32, 108, 105, 110, 101, 115, 32>>
                     \o (IF e.dirty # 0
                         THEN <<40, 109, 111, 100, 105, 102, 105, 101, 100, 41>>
                         ELSE <<>>)
        curline == e.cy + 1
        \* "L%d | %d%%" or "L%d"
        rstatus == IF e.numrows > e.screenrows
                   THEN <<76>> \o Decimal(curline) \o <<32, 124, 32>>
                           \o Decimal(Min((curline * 100) \div e.numrows, 100))
                           \o <<37>>
                   ELSE <<76>> \o Decimal(curline)
        len == Min(Len(status), e.screencols)
    IN <<27, 91, 55, 109>>                                  \* "\x1b[7m"
          \o Take(status, len) \o StatusPad(len, e.screencols, rstatus)
          \o <<27, 91, 109>> \o CrLf                        \* "\x1b[m", "\r\n"

\* editorDrawMessageBar(ab); fresh: the message is less than 5 seconds old
editorDrawMessageBar(e, fresh) ==
    LET msg == FormatMsg(e.statusmsg)
        msglen == Min(Len(msg), e.screencols)
    IN EraseLine \o (IF msglen # 0 /\ fresh THEN Take(msg, msglen) ELSE <<>>)

\* the buffer editorRefreshScreen() hands to write(), editorScroll() done
editorRefreshScreenWrite(e, fresh) ==
    <<27, 91, 63, 50, 53, 108>>                 \* "\x1b[?25l", 6
       \o <<27, 91, 72>>                        \* "\x1b[H", 3
       \o editorDrawRows(e) \o editorDrawStatusBar(e) \o editorDrawMessageBar(e, fresh)
       \o <<120, 49, 98, 91>>                   \* "x1b[%d;%dH"
       \o Decimal((e.cy - e.rowoff) + 1) \o <<59>>
       \o Decimal((e.rx - e.coloff) + 1) \o <<72>>
       \o <<27, 91, 50, 53, 104, 0>>            \* "\x1b[25h", 6: its 0 byte too

MaxFrameKeys == 4

InitFrame ==
    /\ \E ws \in {<<4, 9>>, <<4, 33>>} :
          LET e == [ZeroE EXCEPT !.screenrows = ws[1] - 2, !.screencols = ws[2]]
          IN \/ E = EnterMainLoop(e) /\ disk = <<>>
             \/ LET bytes == <<CH_ONE, CH_TAB, CH_ONE, CH_LF, CH_ONE, CH_LF, CH_LF>>
                IN /\ E = EnterMainLoop(editorOpen(e, ArgFile, bytes))
                   /\ disk = <<bytes>>
    /\ quit_times = SPIKE_QUIT_TIMES
    /\ cb = [last_match |-> -1, direction |-> 1, saved_hl_line |-> 0, saved_hl |-> <<>>]
    /\ prompt = NoPrompt
    /\ pc = "main"
    /\ term = [attrs |-> "raw", atexit |-> TRUE, entered |-> TRUE, restore |-> "none"]
    /\ keyrun = 0
    /\ probe = [op |-> "none", keys |-> 0, fresh |-> TRUE, out |-> <<>>]

\* write(STDOUT_FILENO, ab.b, ab.len) of the frame for e, after keys keys
FrameWrite(e, keys) ==
    {[op |-> "frame", keys |-> keys + 1, fresh |-> fresh,
      out |-> editorRefreshScreenWrite(e, fresh)] : fresh \in BOOLEAN}

\* default: editorInsertChar(c), then the next frame
FrameChar ==
    /\ probe.keys < MaxFrameKeys
    /\ \E c \in TypedBytes :
          LET e == editorRefreshScreen(editorInsertChar(E, c))
          IN E' = e /\ probe' \in FrameWrite(e, probe.keys)
    /\ TypeFrame

\* case '\r': editorInsertNewline(), then the next frame
FrameEnter ==
    /\ probe.keys < MaxFrameKeys
    /\ LET e == editorRefreshScreen(editorInsertNewline(E))
       IN E' = e /\ probe' \in FrameWrite(e, probe.keys)
    /\ TypeFrame

\* the arrow keys: editorMoveCursor(c), then the next frame
FrameMove ==
    /\ probe.keys < MaxFrameKeys
    /\ \E c \in {ARROW_RIGHT, ARROW_DOWN} :
          LET e == editorRefreshScreen(editorMoveCursor(E, c))
          IN E' = e /\ probe' \in FrameWrite(e, probe.keys)
    /\ TypeFrame

NextFrame == FrameChar \/ FrameEnter \/ FrameMove

SpecFrame == InitFrame /\ [][NextFrame]_vars

----------------------------------------------------------------------------
(* Properties.                                                             *)

\* the chars of every row, in order
Chars(e) == [i \in 1..e.numrows |-> e.row[i].chars]

\* C1: the cursor stays inside the document: 0 <= cy <= numrows, on a row
\* 0 <= cx <= the row's size, and cx = 0 on the line after the last row.
C1_CursorBounds ==
    /\ 0 <= E.cy
    /\ E.cy <= E.numrows
    /\ E.cy < E.numrows => 0 <= E.cx /\ E.cx <= Len(E.row[E.cy + 1].chars)
    /\ E.cy = E.numrows => E.cx = 0

\* after an edit and a search that matched on the second row, the cursor is
\* on the line after the last row
C1_Witness ==
    /\ pc = "main"
    /\ E.dirty > 0
    /\ cb.saved_hl_line = 1
    /\ E.numrows > 1
    /\ E.cy = E.numrows

\* C2: every row has one highlight tag per render byte, and its render is
\* the tab expansion of its chars, also while a match is highlighted.
C2_RowInvariant ==
    \A i \in 1..Len(E.row) :
        /\ Len(E.row[i].render) = Len(E.row[i].hl)
        /\ E.row[i].render = RenderFrom(E.row[i].chars, 0, <<>>)

\* a search prompt is open on an edited document and a match is highlighted
\* in a row whose render is longer than its chars
C2_Witness ==
    /\ pc = "find"
    /\ E.dirty > 0
    /\ \E i \in 1..Len(E.row) :
          /\ Len(E.row[i].render) > Len(E.row[i].chars)
          /\ \E j \in 1..Len(E.row[i].hl) : E.row[i].hl[j] = HL_MATCH

\* C3: while the main loop waits for a key, every tag is HL_NUMBER on a
\* digit and HL_NORMAL elsewhere: no HL_MATCH is left by a search.
C3_HighlightRestored ==
    pc = "main" =>
        \A i \in 1..Len(E.row) :
            /\ Len(E.row[i].hl) = Len(E.row[i].render)
            /\ \A j \in 1..Len(E.row[i].hl) :
                  E.row[i].hl[j] = IF isdigit(E.row[i].render[j])
                                   THEN HL_NUMBER ELSE HL_NORMAL

\* a search that matched on the second row has ended and left the cursor
\* there; the digits of that row are tagged HL_NUMBER
C3_Witness ==
    /\ pc = "main"
    /\ cb.saved_hl_line = 1
    /\ E.statusmsg.fmt = ""
    /\ E.cy = 1
    /\ E.numrows > 1
    /\ \E j \in 1..Len(E.row[2].hl) : E.row[2].hl[j] = HL_NUMBER

\* C4: after a successful save, opening the saved file gives the same rows.
C4_RoundTrip ==
    (pc = "main" /\ E.dirty = 0 /\ E.statusmsg.fmt = WrittenFmt) =>
        Chars(editorOpen(ZeroE, E.filename[1], disk[1])) = Chars(E)

\* the sum of the row sizes plus numrows
RECURSIVE SumSizes(_, _)
SumSizes(e, j) ==
    IF j > e.numrows THEN 0 ELSE Len(e.row[j].chars) + 1 + SumSizes(e, j + 1)

\* what C5 says of a save whose open, ftruncate and write returned fd, tr, w
SavePost(fd, tr, w) ==
    /\ pc' = "main"
    /\ E'.row = E.row
    /\ E'.numrows = E.numrows
    /\ IF fd # -1 /\ tr # -1 /\ w = SumSizes(E, 1)
       THEN /\ E'.dirty = 0
            /\ E'.statusmsg.fmt = WrittenFmt
            /\ E'.statusmsg.n = SumSizes(E, 1)
       ELSE /\ E'.dirty = E.dirty
            /\ E'.statusmsg.fmt = CantSaveFmt

\* C5: a save in which open, ftruncate or write fails leaves the rows and
\* dirty alone and reports "Can't save"; a save in which all succeed sets
\* dirty to 0 and reports the bytes written; the session goes on.
C5_SaveOutcome ==
    [][\A fd \in OpenResults, tr \in {0, -1}, w \in WriteResults(SumSizes(E, 1)) :
          (KeySave(fd, tr, w) \/ SaveAsAccept(fd, tr, w)) => SavePost(fd, tr, w)]_vars

\* a save under a new name failed at open: the file does not exist, the
\* document is still modified
C5_Witness ==
    /\ pc = "main"
    /\ E.statusmsg.fmt = CantSaveFmt
    /\ E.dirty > 0
    /\ E.filename # <<>>
    /\ disk = <<>>

\* C6: with dirty = 0 Ctrl-Q ends the editor; with dirty > 0 it ends the
\* editor only after SPIKE_QUIT_TIMES Ctrl-Q in a row, each of which only
\* set the warning; any other key in the main loop resets quit_times.
C6_QuitConfirm ==
    [][/\ KeyQuit =>
            /\ E.dirty = 0 => pc' = "exited"
            /\ (E.dirty > 0 /\ pc' = "exited") => keyrun >= SPIKE_QUIT_TIMES
            /\ pc' = "main" =>
                  /\ E'.statusmsg = StatusMsg(QuitWarnFmt, quit_times, <<>>)
                  /\ [E' EXCEPT !.statusmsg = E.statusmsg] = E
       /\ (pc = "main" /\ pc' = "main" /\ ~KeyQuit) => quit_times' = SPIKE_QUIT_TIMES
      ]_vars

\* the editor ended with unsaved changes on the fourth Ctrl-Q in a row
C6_Witness ==
    /\ pc = "exited"
    /\ E.dirty > 0
    /\ keyrun = SPIKE_QUIT_TIMES + 1

C8_RoundTrip ==
    probe.op = "round" =>
        /\ probe.res >= probe.arg
        /\ (\A j \in 1..Len(probe.chars) : probe.chars[j] # CH_TAB) =>
               probe.res = probe.arg

\* the round trip was made from the end of a three-byte row with a tab in
\* the middle
C8_Witness ==
    /\ probe.op = "round"
    /\ Len(probe.chars) = 3
    /\ probe.chars[2] = CH_TAB
    /\ probe.arg = 3

\* the render column probe.arg lies in the span of the tab at chars index t
InTabSpan(t) ==
    LET row == editorUpdateRow(probe.chars)
    IN /\ probe.chars[t + 1] = CH_TAB
       /\ editorRowCxToRx(row, t) <= probe.arg
       /\ probe.arg < editorRowCxToRx(row, t + 1)

\* C9 as stated: a render column inside the span of the tab at index t maps
\* to t + 1.
C9_AfterTab ==
    probe.op = "rx_to_cx" =>
        \A t \in 0..(Len(probe.chars) - 1) : InTabSpan(t) => probe.res = t + 1

\* C9, amended: a render column inside the span of the tab at index t maps
\* to t, the index of the tab.
C9_AtTab ==
    probe.op = "rx_to_cx" =>
        \A t \in 0..(Len(probe.chars) - 1) : InTabSpan(t) => probe.res = t

\* a column strictly inside the span of a tab that is not the first byte
C9_Witness ==
    /\ probe.op = "rx_to_cx"
    /\ \E t \in 1..(Len(probe.chars) - 1) :
          /\ InTabSpan(t)
          /\ probe.arg > editorRowCxToRx(editorUpdateRow(probe.chars), t)

\* C10: editorInsertNewline then editorDelChar on a row restores the chars
\* of every row, numrows and the cursor.
C10_SplitMerge ==
    probe.op = "delete" =>
        /\ E.numrows = probe.e0.numrows
        /\ Chars(E) = Chars(probe.e0)
        /\ E.cx = probe.e0.cx
        /\ E.cy = probe.e0.cy

\* the first of two rows was split in its middle and merged again
C10_Witness ==
    /\ probe.op = "delete"
    /\ probe.e0.numrows = 2
    /\ probe.e0.cy = 0
    /\ probe.e0.cx > 0
    /\ probe.e0.cx < Len(probe.e0.row[1].chars)

\* C11: editorInsertChar(c) followed by editorDelChar() on a row restores
\* the chars of that row and of every other row, numrows and the cursor,
\* and leaves dirty greater than before.
C11_InsertDelete ==
    probe.op = "undo" =>
        /\ E.numrows = probe.e0.numrows
        /\ Chars(E) = Chars(probe.e0)
        /\ E.cx = probe.e0.cx
        /\ E.cy = probe.e0.cy
        /\ E.dirty > probe.e0.dirty

\* a byte was inserted in the middle of the second of two rows and deleted
C11_Witness ==
    /\ probe.op = "undo"
    /\ probe.e0.numrows = 2
    /\ probe.e0.cy = 1
    /\ probe.e0.cx = 1
    /\ Len(probe.e0.row[2].chars) = 2
    /\ E.dirty = 2

\* h contains q as a contiguous subsequence
Contains(h, q) ==
    \E i \in 0..(Len(h) - Len(q)) : SubSeq(h, i + 1, i + Len(q)) = q

\* the row examined k-th by a scan from last_match lm in direction dir
ScanRow(lm, dir, k) == (lm + k * dir + 2 * E.numrows) % E.numrows

\* what C12 says of the callback run for the key c
ScanPost(c) ==
    LET arrow == c \in {ARROW_LEFT, ARROW_RIGHT, ARROW_UP, ARROW_DOWN}
        lm == IF arrow THEN cb.last_match ELSE -1
        dir == IF lm # -1 /\ c \in {ARROW_LEFT, ARROW_UP} THEN -1 ELSE 1
        q == prompt'.buf
        hits == {k \in 1..E.numrows : Contains(E.row[ScanRow(lm, dir, k) + 1].render, q)}
    IN /\ (cb'.saved_hl # <<>>) <=>
              (\E i \in 1..E.numrows : Contains(E.row[i].render, q))
       /\ IF hits = {}
          THEN E'.cx = E.cx /\ E'.cy = E.cy
          ELSE LET k == CHOOSE x \in hits : \A y \in hits : x <= y
               IN /\ E'.cy = ScanRow(lm, dir, k)
                  /\ cb'.last_match = ScanRow(lm, dir, k)

\* C12: a callback run for a key other than Enter and Escape examines the
\* rows last_match + direction, last_match + 2 * direction, ... modulo
\* numrows and moves the cursor to the first of them whose render contains
\* the query; a match is found exactly when some render contains the query.
C12_ScanOrder ==
    [][\A c \in FindKeys : (pc = "find" /\ PromptKey(c)) => ScanPost(c)]_vars

\* a backward scan went from the first row of three to the last one
C12_Witness ==
    /\ pc = "find"
    /\ E.numrows = 3
    /\ cb.direction = -1
    /\ cb.last_match = 2
    /\ cb.saved_hl # <<>>
    /\ E.cy = 2
    /\ ~Contains(E.row[2].render, prompt.buf)

\* the saved_cx, saved_cy, saved_coloff and saved_rowoff of p are those of e
SearchSnapshot(p, e) ==
    /\ p.saved_cx = e.cx
    /\ p.saved_cy = e.cy
    /\ p.saved_coloff = e.coloff
    /\ p.saved_rowoff = e.rowoff

\* C13: the values saved when the search starts are kept while its prompt is
\* open and Escape puts cx, cy, rowoff and coloff back to them; a key that
\* finds no match leaves the cursor where it is, and so does Enter, so the
\* cursor ends on the last match found, or where it was if none was found.
C13_CancelCommit ==
    [][/\ KeyFind => SearchSnapshot(prompt', E) /\ SearchSnapshot(prompt', E')
       /\ (pc = "find" /\ pc' = "find") =>
              /\ SearchSnapshot(prompt', [cx |-> prompt.saved_cx,
                                          cy |-> prompt.saved_cy,
                                          coloff |-> prompt.saved_coloff,
                                          rowoff |-> prompt.saved_rowoff])
              /\ cb'.saved_hl = <<>> => E'.cx = E.cx /\ E'.cy = E.cy
              /\ cb'.saved_hl # <<>> => E'.cy = cb'.last_match
       /\ FindCancel => SearchSnapshot(prompt, E')
       /\ FindAccept => E'.cx = E.cx /\ E'.cy = E.cy
      ]_vars

\* a search that had matched on the second row is over and the cursor is at
\* the end of the first row, where no match starts
C13_Witness ==
    /\ pc = "main"
    /\ E.statusmsg.fmt = ""
    /\ cb.saved_hl_line = 1
    /\ E.dirty = 0
    /\ E.cy = 0
    /\ E.cx > 0
    /\ E.cx = Len(E.row[1].chars)

\* the first row whose render contains q among the rows lm + dir,
\* lm + 2 * dir, ... taken modulo numrows, -1 if there is none
FirstHit(lm, dir, q) ==
    LET hits == {k \in 1..E.numrows : Contains(E.row[ScanRow(lm, dir, k) + 1].render, q)}
    IN IF hits = {} THEN -1
       ELSE ScanRow(lm, dir, CHOOSE x \in hits : \A y \in hits : x <= y)

\* what C14 says of the callback run for the key c, when Left and Up set
\* the direction to back
DirectionPost(c, back) ==
    LET q == prompt'.buf
    IN IF c \in {ARROW_LEFT, ARROW_RIGHT, ARROW_UP, ARROW_DOWN}
       THEN LET dir == IF c \in {ARROW_LEFT, ARROW_UP} THEN back ELSE 1
                hit == FirstHit(cb.last_match, dir, q)
            IN /\ cb'.direction = dir
               /\ cb'.last_match = IF hit = -1 THEN cb.last_match ELSE hit
               /\ hit # -1 => E'.cy = hit
       ELSE LET hit == FirstHit(-1, 1, q)
            IN /\ cb'.direction = 1
               /\ cb'.last_match = hit
               /\ hit # -1 => E'.cy = hit

\* C14 as stated: in the search prompt Right and Down set direction to 1,
\* Left and Up set it to -1, both keep last_match, and the match moves to
\* the next or previous matching row; any other key resets last_match and
\* direction, and the scan restarts from row 0.
C14_Direction ==
    [][\A c \in FindKeys : (pc = "find" /\ PromptKey(c)) => DirectionPost(c, -1)]_vars

\* C14, amended: Left and Up set direction to -1 when there is a last match;
\* with no last match direction is 1 after them too and the scan starts
\* from row 0.
C14_DirectionIfMatch ==
    [][\A c \in FindKeys :
          (pc = "find" /\ PromptKey(c)) =>
              DirectionPost(c, IF cb.last_match = -1 THEN 1 ELSE -1)]_vars

\* on the rows "\t", "1", "\t1" the query "1" matched on the second row and
\* an arrow moved the match forward to the third
C14_Witness ==
    /\ pc = "find"
    /\ Chars(E) = <<(<<CH_TAB>>), (<<CH_ONE>>), (<<CH_TAB, CH_ONE>>)>>
    /\ prompt.buf = <<CH_ONE>>
    /\ cb.last_match = 2
    /\ cb.direction = 1
    /\ E.cy = 2

\* C15: editorInsertChar(c) with cy = numrows appends one row, puts c in it
\* at cx and advances cx; and k printable bytes, Enter and one more byte
\* typed into the empty document give the two rows of the k bytes and of
\* the last byte, with dirty > 0.
C15_TypeAtEnd ==
    /\ (probe.op = "char" /\ probe.prev.cy = probe.prev.numrows) =>
          /\ E.numrows = probe.prev.numrows + 1
          /\ SubSeq(E.row, 1, probe.prev.numrows) = probe.prev.row
          /\ E.row[E.numrows].chars = <<probe.keys[Len(probe.keys)]>>
          /\ E.cy = probe.prev.cy
          /\ E.cx = probe.prev.cx + 1
    /\ \A k \in 0..(MaxKeys - 2) :
          (/\ Len(probe.keys) = k + 2
           /\ \A i \in 1..k : probe.keys[i] # CH_CR
           /\ probe.keys[k + 1] = CH_CR
           /\ probe.keys[k + 2] # CH_CR) =>
              /\ E.numrows = 2
              /\ E.row[1].chars = SubSeq(probe.keys, 1, k)
              /\ E.row[2].chars = <<probe.keys[k + 2]>>
              /\ E.dirty > 0

\* three bytes, Enter and a fourth byte were typed
C15_Witness ==
    /\ probe.op = "char"
    /\ Len(probe.keys) = 5
    /\ probe.keys[4] = CH_CR
    /\ \A i \in {1, 2, 3, 5} : probe.keys[i] # CH_CR
    /\ E.numrows = 2
    /\ Len(E.row[1].chars) = 3

\* C16: a step that sets dirty lower sets it to 0 and is the load of the
\* file or a save that succeeded; a step that leaves the chars of the rows
\* alone (cursor motion, search, a failed or aborted save) leaves dirty
\* alone unless it is such a save; Enter adds 1 (one editorInsertRow), a
\* byte typed adds 1, and 1 more for the row appended at the end of the
\* file, a deletion adds 1 inside a row and 2 when two rows are merged
\* (editorRowAppendString and editorDelRow).
C16_DirtyCounter ==
    [][/\ (pc = "open" /\ pc' = "main") => E'.dirty = 0
       /\ E'.dirty < E.dirty =>
             /\ E'.dirty = 0
             /\ \/ pc = "open" /\ pc' = "main"
                \/ pc' = "main" /\ E'.statusmsg.fmt = WrittenFmt /\ Chars(E') = Chars(E)
       /\ (pc # "open" /\ Chars(E') = Chars(E)) =>
             \/ E'.dirty = E.dirty
             \/ E'.dirty = 0 /\ pc' = "main" /\ E'.statusmsg.fmt = WrittenFmt
       /\ (pc \in {"find", "saveas"} /\ pc' = pc) => E'.dirty = E.dirty
       /\ (pc' = "main" /\ E'.statusmsg.fmt \in {CantSaveFmt, "Save aborted"}
              /\ E'.statusmsg # E.statusmsg) => E'.dirty = E.dirty
       /\ KeyEnter => E'.dirty = E.dirty + 1
       /\ \A c \in TypedBytes \cup SaveBytes :
             KeyChar(c) => E'.dirty = E.dirty + (IF E.cy = E.numrows THEN 2 ELSE 1)
       /\ \A c \in {BACKSPACE, CTRL_H, DEL_KEY} :
             KeyDelete(c) =>
                 E'.dirty = E.dirty + (IF E'.numrows < E.numrows THEN 2
                                       ELSE IF Chars(E') # Chars(E) THEN 1 ELSE 0)
      ]_vars

\* a document that was edited into two rows has been saved: dirty is 0
C16_Witness ==
    /\ pc = "main"
    /\ E.dirty = 0
    /\ E.statusmsg.fmt = WrittenFmt
    /\ E.numrows = 2
    /\ disk # <<>>
    /\ disk[1] = editorRowsToString(E)

\* C17: editorInsertRow with at < 0 or at > numrows, editorDelRow with
\* at < 0 or at >= numrows and editorRowDelChar with at < 0 or at >= size
\* change nothing (rows, numrows, dirty, cursor) and the editor goes on.
C17_BoundsLeniency ==
    LET e0 == probe.e0
        at == probe.at
        noop == E = e0 /\ pc = "main"
    IN /\ (probe.op = "insert_row" /\ (at < 0 \/ at > e0.numrows)) => noop
       /\ (probe.op = "del_row" /\ (at < 0 \/ at >= e0.numrows)) => noop
       /\ (probe.op = "row_del_char"
              /\ (at < 0 \/ at >= Len(e0.row[e0.cy + 1].chars))) => noop

\* editorDelRow(numrows) was called on a file of two rows
C17_Witness ==
    /\ probe.op = "del_row"
    /\ probe.at = 2
    /\ probe.e0.numrows = 2
    /\ E.numrows = 2

\* the decoding table: the bytes after ESC and the key they stand for
DecodeTable ==
    {<<<<CH_LBRACKET, CH_A>>, ARROW_UP>>, <<<<CH_LBRACKET, CH_B>>, ARROW_DOWN>>,
     <<<<CH_LBRACKET, CH_C>>, ARROW_RIGHT>>, <<<<CH_LBRACKET, CH_D>>, ARROW_LEFT>>,
     <<<<CH_LBRACKET, CH_H>>, HOME_KEY>>, <<<<CH_O, CH_H>>, HOME_KEY>>,
     <<<<CH_LBRACKET, CH_F>>, END_KEY>>, <<<<CH_O, CH_F>>, END_KEY>>,
     <<<<CH_LBRACKET, CH_ONE, CH_TILDE>>, HOME_KEY>>,
     <<<<CH_LBRACKET, CH_SEVEN, CH_TILDE>>, HOME_KEY>>,
     <<<<CH_LBRACKET, CH_FOUR, CH_TILDE>>, END_KEY>>,
     <<<<CH_LBRACKET, CH_EIGHT, CH_TILDE>>, END_KEY>>,
     <<<<CH_LBRACKET, CH_THREE, CH_TILDE>>, DEL_KEY>>,
     <<<<CH_LBRACKET, CH_FIVE, CH_TILDE>>, PAGE_UP>>,
     <<<<CH_LBRACKET, CH_SIX, CH_TILDE>>, PAGE_DOWN>>}

IsPrefix(s, u) == Len(s) <= Len(u) /\ SubSeq(u, 1, Len(s)) = s

\* C18: the key editorReadKey returns is the one the decoding table gives
\* for the bytes that arrived: a table sequence after ESC gives its key, any
\* other sequence after ESC, or one cut short by a read that brings no byte,
\* gives Escape without ending the program, and a byte other than ESC is the
\* key itself (as a char), 127 being BACKSPACE.
C18_KeyDecoding ==
    probe.op = "done" =>
       LET c == probe.c[1]
           key == probe.key[1]
           hits == {p \in DecodeTable : IsPrefix(p[1], probe.seq)}
       IN /\ pc = "main"
          /\ c # CH_ESC =>
                /\ key % 256 = c
                /\ c < 128 => key = c
                /\ c = 127 => key = BACKSPACE
          /\ c = CH_ESC =>
                /\ \A p \in hits : key = p[2] /\ probe.seq = p[1]
                /\ hits = {} => key = CH_ESC
                /\ (hits = {} /\ ~probe.short) =>
                      \A p \in DecodeTable : ~IsPrefix(probe.seq, p[1])

\* ESC [ 5 ~ was read and became PAGE_UP
C18_Witness ==
    /\ probe.op = "done"
    /\ probe.c = <<CH_ESC>>
    /\ probe.seq = <<CH_LBRACKET, CH_FIVE, CH_TILDE>>
    /\ probe.key = <<PAGE_UP>>

\* the render index where byte j (0-indexed) of chars starts when every
\* earlier tab takes the one width in 1..SPIKE_TAB_STOP that ends on a stop
RECURSIVE StartOf(_, _)
StartOf(chars, j) ==
    IF j = 0 THEN 0
    ELSE LET s == StartOf(chars, j - 1)
         IN IF chars[j] = CH_TAB
            THEN s + CHOOSE w \in 1..SPIKE_TAB_STOP : (s + w) % SPIKE_TAB_STOP = 0
            ELSE s + 1

\* C19: after editorUpdateRow render holds no tab, every other byte of
\* chars stands in render in the same order, and every tab of chars has
\* become 1 to SPIKE_TAB_STOP spaces ending on a multiple of SPIKE_TAB_STOP;
\* a byte, a tab and a byte render as the byte, 7 spaces and the byte.
C19_TabExpansion ==
    probe.op = "update_row" =>
       LET chars == probe.chars
           render == probe.row[1].render
       IN /\ \A k \in 1..Len(render) : render[k] # CH_TAB
          /\ Len(render) = StartOf(chars, Len(chars))
          /\ \A j \in 1..Len(chars) :
                LET from == StartOf(chars, j - 1)
                    to == StartOf(chars, j)
                IN IF chars[j] = CH_TAB
                   THEN /\ to - from \in 1..SPIKE_TAB_STOP
                        /\ to % SPIKE_TAB_STOP = 0
                        /\ \A k \in (from + 1)..to : render[k] = CH_SPACE
                   ELSE to = from + 1 /\ render[to] = chars[j]
          /\ chars = <<CH_ONE, CH_TAB, CH_ONE>> =>
                render = <<CH_ONE, CH_SPACE, CH_SPACE, CH_SPACE, CH_SPACE,
                           CH_SPACE, CH_SPACE, CH_SPACE, CH_ONE>>

\* a row with a tab after one byte and a tab on a stop was rendered
C19_Witness ==
    /\ probe.op = "update_row"
    /\ probe.chars = <<CH_ONE, CH_TAB, CH_TAB, CH_ONE>>
    /\ Len(probe.row[1].render) = 17

\* the escape sequences of the frame
HideCursorEsc == <<CH_ESC, CH_LBRACKET, 63, 50, 53, 108>>

ShowCursorEsc == <<CH_ESC, CH_LBRACKET, 63, 50, 53, 104>>

HomeCursorEsc == <<CH_ESC, CH_LBRACKET, CH_H>>

CursorPosEsc(row, col) ==
    <<CH_ESC, CH_LBRACKET>> \o Decimal(row) \o <<59>> \o Decimal(col) \o <<CH_H>>

\* the screenrows row lines one after the other
RECURSIVE RowLines(_, _)
RowLines(e, n) == IF n = 0 THEN <<>> ELSE RowLines(e, n - 1) \o DrawRow(e, n - 1)

\* C20: the buffer written for a frame is, in this order, the hide-cursor
\* escape, the home-cursor escape, screenrows row lines, the status bar,
\* the message bar, ESC [ row ; col H with row = cy - rowoff + 1 and
\* col = rx - coloff + 1, and the show-cursor escape ESC [ ? 2 5 h.
C20_FrameComposition ==
    probe.op = "frame" =>
       probe.out = HideCursorEsc \o HomeCursorEsc
                      \o RowLines(E, E.screenrows)
                      \o editorDrawStatusBar(E)
                      \o editorDrawMessageBar(E, probe.fresh)
                      \o CursorPosEsc(E.cy - E.rowoff + 1, E.rx - E.coloff + 1)
                      \o ShowCursorEsc

\* C21: with at least one screen row and column, after every editorScroll
\* (so whenever a frame has been written and the next key is awaited) rx is
\* editorRowCxToRx of the cursor (0 past the last row), rowoff <= cy <
\* rowoff + screenrows, coloff <= rx < coloff + screencols, and both
\* offsets are at least 0.
C21_ScrollPost ==
    (pc \in {"main", "find", "saveas"} /\ E.screenrows >= 1 /\ E.screencols >= 1) =>
       /\ E.rx = IF E.cy < E.numrows THEN editorRowCxToRx(E.row[E.cy + 1], E.cx) ELSE 0
       /\ E.rowoff <= E.cy /\ E.cy < E.rowoff + E.screenrows
       /\ E.coloff <= E.rx /\ E.rx < E.coloff + E.screencols
       /\ E.rowoff >= 0 /\ E.coloff >= 0

\* a frame with the viewport scrolled both down and to the right
C21_Witness ==
    /\ pc = "main"
    /\ E.screenrows >= 1 /\ E.screencols >= 1
    /\ E.rowoff > 0 /\ E.coloff > 0
    /\ E.cy = E.rowoff + E.screenrows - 1
    /\ E.rx = E.coloff + E.screencols - 1

\* the row a callback run for the key c matches on, -1 when it finds none
MatchRow(c) ==
    LET lm == IF c \in {ARROW_LEFT, ARROW_RIGHT, ARROW_UP, ARROW_DOWN}
              THEN cb.last_match ELSE -1
        dir == IF lm # -1 /\ c \in {ARROW_LEFT, ARROW_UP} THEN -1 ELSE 1
    IN FirstHit(lm, dir, prompt'.buf)

MatchRows(e) ==
    {i \in 1..e.numrows : \E j \in 1..Len(e.row[i].hl) : e.row[i].hl[j] = HL_MATCH}

\* what C23 says of a callback run for the key c that matches on row m
OverlayPost(c) ==
    LET m == MatchRow(c)
        q == prompt'.buf
        render == E.row[m + 1].render
        o == CHOOSE i \in 0..(Len(render) - Len(q)) :
                /\ SubSeq(render, i + 1, i + Len(q)) = q
                /\ \A k \in 0..(i - 1) : SubSeq(render, k + 1, k + Len(q)) # q
        hl == E'.row[m + 1].hl
    IN /\ Len(hl) = Len(render)
       /\ \A j \in 1..Len(hl) :
             hl[j] = IF o < j /\ j <= o + Len(q) THEN HL_MATCH
                     ELSE IF isdigit(render[j]) THEN HL_NUMBER ELSE HL_NORMAL
       /\ MatchRows(E') \subseteq {m + 1}

\* C23: after a callback that found the query at render offset o of row m,
\* the hl of row m is HL_MATCH at exactly the positions [o, o + len(query))
\* and the tag of the digit or other byte elsewhere, no other row holds an
\* HL_MATCH, and at no moment more than one row holds an HL_MATCH.
C23_MatchOverlay ==
    [][/\ \A c \in FindKeys :
             (pc = "find" /\ PromptKey(c) /\ MatchRow(c) # -1) => OverlayPost(c)
       /\ Cardinality(MatchRows(E')) <= 1]_vars

\* the query "1" is marked behind the eight spaces of a tab on the last of
\* three rows, after a match on another row
C23_Witness ==
    /\ pc = "find"
    /\ E.numrows = 3
    /\ prompt.buf = <<CH_ONE>>
    /\ cb.last_match = 2
    /\ E.row[3].chars = <<CH_TAB, CH_ONE>>
    /\ E.row[3].hl[9] = HL_MATCH
    /\ E.row[1].chars = <<CH_ONE>>
    /\ MatchRows(E) = {3}

\* s without its byte at index i (0-indexed)
Without(s, i) == SubSeq(s, 1, i) \o SubSeq(s, i + 2, Len(s))

\* what C24 says of one editorDelChar() taking the editor from e to f
DelCharPost(e, f) ==
    LET rows == Chars(e)
    IN IF e.cy = e.numrows \/ (e.cx = 0 /\ e.cy = 0)
       THEN /\ Chars(f) = rows
            /\ f.cx = e.cx /\ f.cy = e.cy /\ f.dirty = e.dirty
       ELSE IF e.cx > 0
       THEN /\ Chars(f) = [rows EXCEPT ![e.cy + 1] = Without(@, e.cx - 1)]
            /\ f.cx = e.cx - 1 /\ f.cy = e.cy
       ELSE /\ f.numrows = e.numrows - 1
            /\ Chars(f) = [i \in 1..(e.numrows - 1) |->
                              IF i < e.cy THEN rows[i]
                              ELSE IF i = e.cy THEN rows[e.cy] \o rows[e.cy + 1]
                              ELSE rows[i + 1]]
            /\ f.cx = Len(rows[e.cy]) /\ f.cy = e.cy - 1

\* C24: editorDelChar() changes nothing at (cx, cy) = (0, 0) and on the line
\* after the last row; with cx > 0 it removes chars[cx - 1] of row cy and
\* decrements cx; with cx = 0 on a later row it replaces row cy - 1 by rows
\* cy - 1 and cy joined, removes row cy, and moves the cursor to the old
\* length of row cy - 1 on row cy - 1.
C24_DelCharCases ==
    [][\A c \in {BACKSPACE, CTRL_H} : KeyDelete(c) => DelCharPost(E, E')]_vars

\* the two rows of the file "\t1\r\n1" have been joined into one
C24_Witness ==
    /\ pc = "main"
    /\ disk = <<(<<CH_TAB, CH_ONE, CH_CR, CH_LF, CH_ONE>>)>>
    /\ E.numrows = 1
    /\ E.row[1].chars = <<CH_TAB, CH_ONE>>
    /\ E.cx = 1 /\ E.cy = 0
    /\ E.dirty = 3

\* the row the cursor is on holds the chars of probe.e0's with probe.c put
\* in at index i, and dirty is one more than in probe.e0
InsertedAt(i) ==
    LET e0 == probe.e0
        old == e0.row[e0.cy + 1].chars
    IN /\ E.row[e0.cy + 1].chars = SubSeq(old, 1, i) \o <<probe.c>> \o SubSeq(old, i + 1, Len(old))
       /\ Len(E.row[e0.cy + 1].chars) = Len(old) + 1
       /\ E.dirty = e0.dirty + 1
       /\ \A k \in 1..e0.numrows : k # e0.cy + 1 => E.row[k] = e0.row[k]

\* C25 as stated: editorRowInsertChar(row, at, c) inserts c at index
\* min(max(at, 0), row.size), so a negative at inserts at the start of the
\* row; the row grows by one byte and dirty by 1.
C25_Clamp ==
    probe.op = "row_insert_char" =>
       LET size == Len(probe.e0.row[probe.e0.cy + 1].chars)
           lo == IF probe.at < 0 THEN 0 ELSE probe.at
       IN InsertedAt(IF lo > size THEN size ELSE lo)

\* C25 amended: editorRowInsertChar(row, at, c) inserts c at index at when
\* 0 <= at <= row.size and at the end of the row for every other at, a
\* negative one included; the row grows by one byte and dirty by 1.
C25_OutOfRangeAppends ==
    probe.op = "row_insert_char" =>
       LET size == Len(probe.e0.row[probe.e0.cy + 1].chars)
       IN InsertedAt(IF probe.at < 0 \/ probe.at > size THEN size ELSE probe.at)

\* a tab was inserted with at = -1 into the row "11" and stands at its end
C25_Witness ==
    /\ probe.op = "row_insert_char"
    /\ probe.at = -1
    /\ probe.c = CH_TAB
    /\ probe.e0.row[probe.e0.cy + 1].chars = <<CH_ONE, CH_ONE>>
    /\ E.row[probe.e0.cy + 1].chars = <<CH_ONE, CH_ONE, CH_TAB>>

\* C26: dirty = 0 only while the rows are those of the last load or
\* successful save (the empty document before either): the program starts
\* with no rows and dirty = 0, and a step that ends with dirty = 0 is the
\* load, a save that succeeded and left the rows alone, or a step from
\* dirty = 0 that left the number of rows and every row's chars alone.
C26_CleanMeansSaved ==
    /\ (pc = "start" => E.dirty = 0 /\ E.numrows = 0)
    /\ [][E'.dirty = 0 =>
             \/ pc = "open" /\ pc' = "main"
             \/ /\ pc \in {"main", "saveas"} /\ pc' = "main"
                /\ E'.statusmsg.fmt = WrittenFmt
                /\ disk' # <<>>
                /\ Chars(E') = Chars(E)
             \/ E.dirty = 0 /\ Chars(E') = Chars(E)]_vars

\* the one row of a file, with a line feed typed into it, has been saved
C26_Witness ==
    /\ pc = "main"
    /\ E.dirty = 0
    /\ E.statusmsg.fmt = WrittenFmt
    /\ E.numrows = 1
    /\ E.row[1].chars = <<CH_LF, CH_ONE>>

\* C27: for a row as editorUpdateRow leaves it, the length of render is
\* editorRowCxToRx of the length of chars, editorRowCxToRx grows strictly
\* with cx, and for every index j of a byte of chars that is no tab the
\* render byte at column editorRowCxToRx(row, j) is chars[j].
C27_RenderColumns ==
    probe.op = "update_row" =>
       LET row == probe.row[1]
           n == Len(row.chars)
       IN /\ Len(row.render) = editorRowCxToRx(row, n)
          /\ \A j \in 0..(n - 1) :
                editorRowCxToRx(row, j) < editorRowCxToRx(row, j + 1)
          /\ \A j \in 0..(n - 1) :
                row.chars[j + 1] # CH_TAB =>
                   row.render[editorRowCxToRx(row, j) + 1] = row.chars[j + 1]

\* the digit behind a tab that stands at column 1 is rendered at column 8
C27_Witness ==
    /\ probe.op = "update_row"
    /\ probe.chars = <<CH_SPACE, CH_TAB, CH_ONE>>
    /\ editorRowCxToRx(probe.row[1], 2) = 8
    /\ probe.row[1].render[9] = CH_ONE

\* a key that moves the cursor or does nothing, Ctrl-F, or any step of the
\* search prompt up to the Enter or Escape that closes it
NavigationStep ==
    \/ KeyHome
    \/ KeyEnd
    \/ \E c \in {PAGE_UP, PAGE_DOWN} : KeyPage(c)
    \/ \E c \in {ARROW_UP, ARROW_DOWN, ARROW_LEFT, ARROW_RIGHT} : KeyArrow(c)
    \/ \E c \in {CTRL_L, CH_ESC} : KeyNop(c)
    \/ KeyFind
    \/ pc = "find"

\* C28: the arrow keys, Home, End, PageUp, PageDown, Escape, Ctrl-L and
\* every step of a search from Ctrl-F to its Enter or Escape leave numrows,
\* the chars and the render of every row, dirty and the filename as they
\* were.
C28_NavigationFrame ==
    [][NavigationStep =>
          /\ E'.numrows = E.numrows
          /\ \A i \in 1..E.numrows :
                /\ E'.row[i].chars = E.row[i].chars
                /\ E'.row[i].render = E.row[i].render
          /\ E'.dirty = E.dirty
          /\ E'.filename = E.filename
          /\ E'.screenrows = E.screenrows /\ E'.screencols = E.screencols]_vars

\* the file "\t1\r\n1" is unchanged, with the cursor on its second row and
\* that row on top of a viewport of two rows
C28_Witness ==
    /\ pc = "main"
    /\ E.screenrows = 2
    /\ E.dirty = 0
    /\ Chars(E) = <<(<<CH_TAB, CH_ONE>>), (<<CH_ONE>>)>>
    /\ E.cy = 1
    /\ E.rowoff = 1
    /\ E.filename = <<ArgFile>>

\* C29: Delete pressed with the cursor on a row leaves the cursor where it
\* is; before the end of the row it removes chars[cx], at the end of a row
\* that has a following row it joins that row onto the current one, and at
\* the end of the last row it changes neither the rows nor the cursor.
C29_DeleteKey ==
    [][(KeyDelete(DEL_KEY) /\ E.cy < E.numrows) =>
          LET rows == Chars(E)
              r == E.cy + 1
          IN /\ E'.cx = E.cx /\ E'.cy = E.cy
             /\ IF E.cx < Len(rows[r])
                THEN Chars(E') = [rows EXCEPT ![r] = Without(@, E.cx)]
                ELSE IF r < E.numrows
                THEN Chars(E') = [i \in 1..(E.numrows - 1) |->
                                     IF i < r THEN rows[i]
                                     ELSE IF i = r THEN rows[r] \o rows[r + 1]
                                     ELSE rows[i + 1]]
                ELSE Chars(E') = rows]_vars

====
